---- MODULE Spec2Model ----
(***************************************************************************)
(* Numeric tower of Gauche (src/src/number.c): exact integers (fixnum and  *)
(* bignum), ratnums and flonums, with the arithmetic, integer division,    *)
(* gcd and comparison routines translated from the C source.               *)
(*                                                                         *)
(* A number is a record:                                                   *)
(*   [tag |-> "int", v |-> i]         fixnum, payload i                    *)
(*   [tag |-> "big", v |-> i]         bignum object holding i              *)
(*   [tag |-> "rat", n |-> I, d |-> I] ratnum, I integer objects           *)
(*   [tag |-> "flo", c, neg, n, d]    flonum: c = "fin" is (-1)^neg * n/d, *)
(*                                    c = "inf" is signed infinity,        *)
(*                                    c = "nan" is NaN                     *)
(*   [tag |-> "err", kind |-> k]      the call left through Scm_Error      *)
(*   [tag |-> "trap"]                 the process was killed by a machine  *)
(*                                    trap (no Scheme error was raised)    *)
(* The machine word is WordBits wide; C long arithmetic wraps modulo       *)
(* 2^WordBits.  A fixnum keeps WordBits-2 payload bits, as in the source.  *)
(***************************************************************************)
EXTENDS Integers, Naturals, Sequences, FiniteSets, TLC

VARIABLES op, x, y, res, rem

vars == <<op, x, y, res, rem>>

\* Width of a C long in the model (the source runs with 32 or 64).
WordBits == 8

RECURSIVE Pow2(_)
Pow2(n) == IF n <= 0 THEN 1 ELSE 2 * Pow2(n - 1)

LONG_MAX == Pow2(WordBits - 1) - 1
LONG_MIN == -LONG_MAX - 1

SCM_SMALL_INT_SIZE == WordBits - 3
SCM_SMALL_INT_MAX == Pow2(SCM_SMALL_INT_SIZE) - 1
SCM_SMALL_INT_MIN == -SCM_SMALL_INT_MAX - 1
SCM_SMALL_INT_FITS(k) == k <= SCM_SMALL_INT_MAX /\ k >= SCM_SMALL_INT_MIN

IAbs(i) == IF i < 0 THEN -i ELSE i
ISign(i) == IF i > 0 THEN 1 ELSE IF i < 0 THEN -1 ELSE 0

\* Two's-complement wrap of an unbounded integer to a signed field of b bits.
WrapBits(v, b) == ((v + Pow2(b - 1)) % Pow2(b)) - Pow2(b - 1)
WrapLong(v) == WrapBits(v, WordBits)

\* C integer division and remainder on longs: truncation toward zero.
CDiv(a, b) == ISign(a) * ISign(b) * (IAbs(a) \div IAbs(b))
CRem(a, b) == a - b * CDiv(a, b)

\* SCM_MAKE_INT shifts the long left by two and sets the tag; SCM_INT_VALUE
\* shifts back arithmetically: the payload is the value wrapped to
\* WordBits-2 bits.
SCM_MAKE_INT(v) == [tag |-> "int", v |-> WrapBits(v, WordBits - 2)]
SCM_INT_VALUE(o) == o.v

SCM_INTP(o) == o.tag = "int"
SCM_BIGNUMP(o) == o.tag = "big"
SCM_RATNUMP(o) == o.tag = "rat"
SCM_FLONUMP(o) == o.tag = "flo"
SCM_INTEGERP(o) == SCM_INTP(o) \/ SCM_BIGNUMP(o)
SCM_EXACTP(o) == SCM_INTEGERP(o) \/ SCM_RATNUMP(o)
SCM_EXACT_ZERO_P(o) == o = SCM_MAKE_INT(0)
SCM_EXACT_ONE_P(o) == o = SCM_MAKE_INT(1)

Err(k) == [tag |-> "err", kind |-> k]
IsErr(o) == o.tag = "err"
Trap == [tag |-> "trap"]
NoValue == [tag |-> "none"]
\* A branch that leaves through a goto, or through a return statement that
\* several branches share, yields the label; the routine acts on it once.
Goto(label) == [tag |-> "goto", to |-> label]

(***************************************************************************)
(* Big-integer primitives (gauche/bignum.h, outside src/): exact integer   *)
(* arithmetic whose results are down-normalized to a fixnum when they fit. *)
(***************************************************************************)
Scm_MakeBignumFromSI(v) == [tag |-> "big", v |-> v]
Scm_NormalizeBignum(v) ==
    IF SCM_SMALL_INT_FITS(v) THEN SCM_MAKE_INT(v) ELSE [tag |-> "big", v |-> v]
Scm_BignumAdd(a, b) == Scm_NormalizeBignum(a.v + b.v)
Scm_BignumAddSI(a, i) == Scm_NormalizeBignum(a.v + i)
Scm_BignumSub(a, b) == Scm_NormalizeBignum(a.v - b.v)
Scm_BignumSubSI(a, i) == Scm_NormalizeBignum(a.v - i)
Scm_BignumMul(a, b) == Scm_NormalizeBignum(a.v * b.v)
Scm_BignumMulSI(a, i) == Scm_NormalizeBignum(a.v * i)
Scm_BignumNegate(a) == Scm_NormalizeBignum(-a.v)
Scm_BignumCmp(a, b) == ISign(a.v - b.v)
\* Quotient normalized, remainder a long; the divisor is never 0 here.
Scm_BignumDivSI(a, i) ==
    [q |-> Scm_NormalizeBignum(CDiv(a.v, i)), r |-> CRem(a.v, i)]
Scm_BignumDivRem(a, b) ==
    [q |-> Scm_NormalizeBignum(CDiv(a.v, b.v)),
     r |-> Scm_NormalizeBignum(CRem(a.v, b.v))]
\* Scm_BignumToSI with SCM_CLAMP_NONE and an out-of-range pointer.
Scm_BignumToSI(a) ==
    IF a.v > LONG_MAX \/ a.v < LONG_MIN
    THEN [v |-> 0, oor |-> TRUE] ELSE [v |-> a.v, oor |-> FALSE]

Scm_MakeInteger(i) ==
    IF i >= SCM_SMALL_INT_MIN /\ i <= SCM_SMALL_INT_MAX
    THEN SCM_MAKE_INT(i) ELSE Scm_MakeBignumFromSI(i)

\* u_long argument: i is in 0 .. 2^WordBits - 1.
Scm_MakeIntegerU(i) ==
    IF i <= SCM_SMALL_INT_MAX THEN SCM_MAKE_INT(i) ELSE [tag |-> "big", v |-> i]

(***************************************************************************)
(* Flonums.  A C double is kept as an exact dyadic rational whose mantissa *)
(* has MantBits bits (DBL_MANT_DIG at the scale of WordBits: as on an LP64 *)
(* build, a fixnum has more bits than a double's mantissa), rounded to     *)
(* nearest, ties to even.  The exponent range is not bounded.              *)
(***************************************************************************)
MantBits == 4

RECURSIVE IGcd(_, _)
IGcd(a, b) == IF b = 0 THEN IAbs(a) ELSE IGcd(b, a % IAbs(b))

\* Largest k with 2^k <= a/b, for a, b > 0.
RECURSIVE Log2Up(_, _, _)
Log2Up(a, b, k) == IF a >= 2 * b THEN Log2Up(a, 2 * b, k + 1) ELSE k
RECURSIVE Log2Down(_, _, _)
Log2Down(a, b, k) == IF a < b THEN Log2Down(2 * a, b, k - 1) ELSE k
FloorLog2(a, b) == IF a >= b THEN Log2Up(a, b, 0) ELSE Log2Down(a, b, 0)

\* a/b rounded to the nearest integer, ties to even (a >= 0, b > 0); q and
\* r are the quotient and the remainder of a by b.
RoundTie(q, r, b) ==
    IF 2 * r > b \/ (2 * r = b /\ q % 2 = 1) THEN q + 1 ELSE q
RoundHalfEven(a, b) == RoundTie(a \div b, a % b, b)

FloZero(neg) == [tag |-> "flo", c |-> "fin", neg |-> neg, n |-> 0, d |-> 1]
FloInf(neg) == [tag |-> "flo", c |-> "inf", neg |-> neg, n |-> 0, d |-> 1]
FloNaN == [tag |-> "flo", c |-> "nan", neg |-> FALSE, n |-> 0, d |-> 1]
SCM_POSITIVE_INFINITY == FloInf(FALSE)
SCM_NEGATIVE_INFINITY == FloInf(TRUE)
SCM_NAN == FloNaN

\* The double (-1)^neg * nn/dd in lowest terms, g the gcd of nn and dd.
FloLowest(neg, nn, dd, g) ==
    [tag |-> "flo", c |-> "fin", neg |-> neg, n |-> nn \div g, d |-> dd \div g]
FloMake(neg, nn, dd) == FloLowest(neg, nn, dd, IGcd(nn, dd))
\* a/b rounded to a mantissa of MantBits bits whose unit is 2^e.
FloScale(neg, a, b, e) ==
    IF e >= 0 THEN FloMake(neg, RoundHalfEven(a, b * Pow2(e)) * Pow2(e), 1)
    ELSE FloMake(neg, RoundHalfEven(a * Pow2(-e), b), Pow2(-e))
\* The double nearest to (-1)^neg * a/b, a >= 0, b > 0.
RoundDouble(neg, a, b) ==
    IF a = 0 THEN FloZero(neg)
    ELSE FloScale(neg, a, b, FloorLog2(a, b) - (MantBits - 1))

\* (double)i for a C long or a big integer (Scm_BignumToDouble).
IntToDouble(i) == RoundDouble(i < 0, IAbs(i), 1)
Scm_BignumToDouble(a) == IntToDouble(a.v)

FNum(f) == IF f.neg THEN -f.n ELSE f.n
FIsNaN(f) == f.c = "nan"
FIsInf(f) == f.c = "inf"
FIsZero(f) == f.c = "fin" /\ f.n = 0
FNeg(f) == IF FIsNaN(f) THEN f ELSE [f EXCEPT !.neg = ~f.neg]

\* IEEE comparisons: every comparison with a NaN is false.
FLess(a, b) ==
    /\ ~FIsNaN(a) /\ ~FIsNaN(b)
    /\ IF FIsInf(a) THEN a.neg /\ ~(FIsInf(b) /\ b.neg)
       ELSE IF FIsInf(b) THEN ~b.neg
       ELSE FNum(a) * b.d < FNum(b) * a.d
FEqual(a, b) ==
    /\ ~FIsNaN(a) /\ ~FIsNaN(b)
    /\ IF FIsInf(a) \/ FIsInf(b) THEN FIsInf(a) /\ FIsInf(b) /\ a.neg = b.neg
       ELSE FNum(a) * b.d = FNum(b) * a.d

FAdd(a, b) ==
    IF FIsNaN(a) \/ FIsNaN(b) THEN FloNaN
    ELSE IF FIsInf(a) THEN (IF FIsInf(b) /\ a.neg # b.neg THEN FloNaN ELSE a)
    ELSE IF FIsInf(b) THEN b
    ELSE LET s == FNum(a) * b.d + FNum(b) * a.d
         IN  IF s = 0 THEN FloZero(a.neg /\ b.neg)
             ELSE RoundDouble(s < 0, IAbs(s), a.d * b.d)
FSub(a, b) == FAdd(a, FNeg(b))
FMul(a, b) ==
    IF FIsNaN(a) \/ FIsNaN(b) THEN FloNaN
    ELSE IF FIsInf(a) \/ FIsInf(b)
         THEN (IF FIsZero(a) \/ FIsZero(b) THEN FloNaN ELSE FloInf(a.neg # b.neg))
    ELSE RoundDouble(a.neg # b.neg, a.n * b.n, a.d * b.d)
FDiv(a, b) ==
    IF FIsNaN(a) \/ FIsNaN(b) THEN FloNaN
    ELSE IF FIsInf(a) THEN (IF FIsInf(b) THEN FloNaN ELSE FloInf(a.neg # b.neg))
    ELSE IF FIsInf(b) THEN FloZero(a.neg # b.neg)
    ELSE IF FIsZero(b) THEN (IF FIsZero(a) THEN FloNaN ELSE FloInf(a.neg # b.neg))
    ELSE RoundDouble(a.neg # b.neg, a.n * b.d, a.d * b.n)

\* floor(), fmod() and rint() of <math.h> on finite doubles.
FFloor(f) == IF f.c # "fin" THEN f
             ELSE LET q == FNum(f) \div f.d
                  IN  IF q = 0 /\ f.neg /\ f.n = 0 THEN f
                      ELSE RoundDouble(q < 0, IAbs(q), 1)
FMod(a, b) ==
    IF FIsNaN(a) \/ FIsNaN(b) \/ FIsInf(a) \/ FIsZero(b) THEN FloNaN
    ELSE IF FIsInf(b) THEN a
    ELSE LET an == a.n * b.d
             bn == b.n * a.d
             r == an % bn
         IN  RoundDouble(a.neg, r, a.d * b.d)
roundeven(f) ==
    IF f.c # "fin" THEN f
    ELSE LET m == RoundHalfEven(f.n, f.d) IN RoundDouble(f.neg, m, 1)

Scm_MakeFlonum(f) == f

(***************************************************************************)
(* number.c.  Integer-only branches first, the generic entries after them. *)
(***************************************************************************)
SCM_RATNUM_NUMER(o) == o.n

SCM_RATNUM_DENOM(o) == o.d

RECURSIVE Scm_GetDouble(_)
Scm_GetDouble(obj) ==
    IF SCM_FLONUMP(obj) THEN obj
    ELSE IF SCM_INTP(obj) THEN IntToDouble(SCM_INT_VALUE(obj))
    ELSE IF SCM_BIGNUMP(obj) THEN Scm_BignumToDouble(obj)
    ELSE IF SCM_RATNUMP(obj)
         THEN FDiv(Scm_GetDouble(SCM_RATNUM_NUMER(obj)),
                   Scm_GetDouble(SCM_RATNUM_DENOM(obj)))
    ELSE FloZero(FALSE)

\* modf(d, &i) == 0.0: the fractional part of NaN is NaN, of an infinity 0.
Scm_IntegerP(obj) ==
    IF SCM_INTP(obj) \/ SCM_BIGNUMP(obj) THEN TRUE
    ELSE IF SCM_RATNUMP(obj) THEN FALSE
    ELSE IF SCM_FLONUMP(obj) THEN (~FIsNaN(obj) /\ (FIsInf(obj) \/ obj.d = 1))
    ELSE FALSE

Scm_MakeRatnum(numer, denom) ==
    IF ~SCM_INTEGERP(numer) \/ ~SCM_INTEGERP(denom) THEN Err("type")
    ELSE [tag |-> "rat", n |-> numer, d |-> denom]

RECURSIVE Scm_Sign(_)
Scm_Sign(obj) ==
    IF SCM_INTP(obj) THEN ISign(SCM_INT_VALUE(obj))
    ELSE IF SCM_BIGNUMP(obj) THEN ISign(obj.v)
    ELSE IF SCM_FLONUMP(obj)
         THEN (IF ~FEqual(obj, FloZero(FALSE))
               THEN (IF FLess(FloZero(FALSE), obj) THEN 1 ELSE -1)
               ELSE 0)
    ELSE Scm_Sign(SCM_RATNUM_NUMER(obj))

\* The fixnum and bignum branches of Scm_Add.  The components of a ratnum
\* are exact integers, so the rational routines reach only these branches.
Scm_Add_Integer(arg0, arg1) ==
    IF SCM_INTP(arg0) THEN
        IF SCM_INTP(arg1)
        THEN Scm_MakeInteger(WrapLong(SCM_INT_VALUE(arg0) + SCM_INT_VALUE(arg1)))
        ELSE IF SCM_EXACT_ZERO_P(arg0) THEN arg1
        ELSE Scm_BignumAddSI(arg1, SCM_INT_VALUE(arg0))
    ELSE
        IF SCM_INTP(arg1)
        THEN (IF SCM_EXACT_ZERO_P(arg1) THEN arg0
              ELSE Scm_BignumAddSI(arg0, SCM_INT_VALUE(arg1)))
        ELSE Scm_BignumAdd(arg0, arg1)

\* The fixnum and bignum branches of Scm_Sub.
Scm_Sub_Integer(arg0, arg1) ==
    IF SCM_INTP(arg0) THEN
        IF SCM_INTP(arg1)
        THEN Scm_MakeInteger(WrapLong(SCM_INT_VALUE(arg0) - SCM_INT_VALUE(arg1)))
        ELSE Scm_BignumSub(Scm_MakeBignumFromSI(SCM_INT_VALUE(arg0)), arg1)
    ELSE
        IF SCM_INTP(arg1)
        THEN (IF SCM_EXACT_ZERO_P(arg1) THEN arg0
              ELSE Scm_BignumSubSI(arg0, SCM_INT_VALUE(arg1)))
        ELSE Scm_BignumSub(arg0, arg1)

\* Scm_Mul with the range test of the wrapped product as the only
\* overflow test.
Scm_Mul_Integer_FitsOnly(arg0, arg1) ==
    IF SCM_INTP(arg0) THEN
        IF SCM_INTP(arg1)
        THEN LET v0 == SCM_INT_VALUE(arg0)
                 v1 == SCM_INT_VALUE(arg1)
                 k == WrapLong(v0 * v1)
             IN  IF ~SCM_SMALL_INT_FITS(k)
                 THEN Scm_BignumMulSI(Scm_MakeBignumFromSI(v0), v1)
                 ELSE Scm_MakeInteger(k)
        ELSE IF SCM_EXACT_ZERO_P(arg0) THEN arg0
        ELSE IF arg0 = SCM_MAKE_INT(1) THEN arg1
        ELSE Scm_BignumMulSI(arg1, SCM_INT_VALUE(arg0))
    ELSE
        IF SCM_INTP(arg1)
        THEN (IF SCM_EXACT_ZERO_P(arg1) THEN arg1
              ELSE IF SCM_EXACT_ONE_P(arg1) THEN arg0
              ELSE Scm_BignumMulSI(arg0, SCM_INT_VALUE(arg1)))
        ELSE Scm_BignumMul(arg0, arg1)

\* The fixnum and bignum branches of Scm_Mul.
Scm_Mul_Integer(arg0, arg1) ==
    IF SCM_INTP(arg0) THEN
        IF SCM_INTP(arg1)
        THEN LET v0 == SCM_INT_VALUE(arg0)
                 v1 == SCM_INT_VALUE(arg1)
                 k == WrapLong(v0 * v1)
             IN  IF (v1 # 0 /\ CDiv(k, v1) # v0) \/ ~SCM_SMALL_INT_FITS(k)
                 THEN Scm_BignumMulSI(Scm_MakeBignumFromSI(v0), v1)
                 ELSE Scm_MakeInteger(k)
        ELSE IF SCM_EXACT_ZERO_P(arg0) THEN arg0
        ELSE IF arg0 = SCM_MAKE_INT(1) THEN arg1
        ELSE Scm_BignumMulSI(arg1, SCM_INT_VALUE(arg0))
    ELSE
        IF SCM_INTP(arg1)
        THEN (IF SCM_EXACT_ZERO_P(arg1) THEN arg1
              ELSE IF SCM_EXACT_ONE_P(arg1) THEN arg0
              ELSE Scm_BignumMulSI(arg0, SCM_INT_VALUE(arg1)))
        ELSE Scm_BignumMul(arg0, arg1)

\* The fixnum and bignum branches of Scm_Negate.
Scm_Negate_Integer(obj) ==
    IF SCM_INTP(obj)
    THEN (IF SCM_INT_VALUE(obj) = SCM_SMALL_INT_MIN
          THEN Scm_MakeBignumFromSI(-SCM_INT_VALUE(obj))
          ELSE SCM_MAKE_INT(-SCM_INT_VALUE(obj)))
    ELSE Scm_BignumNegate(obj)

\* The fixnum and bignum branches of Scm_Abs.
Scm_Abs_Integer(obj) ==
    IF SCM_INTP(obj)
    THEN (IF SCM_INT_VALUE(obj) < 0 THEN SCM_MAKE_INT(-SCM_INT_VALUE(obj)) ELSE obj)
    ELSE (IF obj.v < 0 THEN [tag |-> "big", v |-> -obj.v] ELSE obj)

\* The fixnum and bignum branches of Scm_NumCmp.
Scm_NumCmp_Integer(arg0, arg1) ==
    IF SCM_INTP(arg0) THEN
        IF SCM_INTP(arg1)
        THEN ISign(WrapLong(SCM_INT_VALUE(arg0) - SCM_INT_VALUE(arg1)))
        ELSE Scm_BignumCmp(Scm_MakeBignumFromSI(SCM_INT_VALUE(arg0)), arg1)
    ELSE
        IF SCM_INTP(arg1)
        THEN Scm_BignumCmp(arg0, Scm_MakeBignumFromSI(SCM_INT_VALUE(arg1)))
        ELSE Scm_BignumCmp(arg0, arg1)

\* Labels of Scm_Quotient and Scm_Modulo that leave through Scm_Error.
DIVBYZERO == Err("divbyzero")

BADARG == Err("integer required")

\* A variant of Scm_Quotient on exact integers that rounds the quotient
\* toward minus infinity instead of toward zero.
Scm_Quotient_Floored(a, b, u) ==
    IF SCM_INTEGERP(a) /\ SCM_INTEGERP(b) /\ b.v # 0
    THEN LET m == IF b.v > 0 THEN a.v % b.v ELSE -((-a.v) % (-b.v))
         IN  [q |-> Scm_NormalizeBignum((a.v - m) \div b.v),
              r |-> Scm_NormalizeBignum(m)]
    ELSE [q |-> DIVBYZERO, r |-> NoValue]

\* Returns [q, r]: the quotient and what *rem receives.  u is what the
\* big-integer division produces when it is handed the divisor 0.
Scm_Quotient(a, b, u) ==
    LET fail(e) == [q |-> e, r |-> NoValue]
        DO_FLONUM(rx, ry) ==
            IF FEqual(ry, FloZero(FALSE)) THEN fail(DIVBYZERO)
            ELSE LET result(q) ==
                         [q |-> Scm_MakeFlonum(q),
                          r |-> Scm_MakeFlonum(roundeven(FSub(rx, FMul(q, ry))))]
                 IN  result(roundeven(FDiv(rx, ry)))
        \* rx and ry are the operands converted to double.
        return(d) == IF d = Goto("DO_FLONUM")
                     THEN DO_FLONUM(Scm_GetDouble(a), Scm_GetDouble(b))
                     ELSE d
    IN  return(
        IF b = SCM_MAKE_INT(1)
        THEN (IF ~Scm_IntegerP(a) THEN fail(BADARG)
              ELSE [q |-> a, r |-> SCM_MAKE_INT(0)])
        ELSE IF SCM_INTP(a) THEN
            IF SCM_INTP(b)
            THEN (IF SCM_INT_VALUE(b) = 0 THEN fail(DIVBYZERO)
                  ELSE [q |-> SCM_MAKE_INT(CDiv(SCM_INT_VALUE(a), SCM_INT_VALUE(b))),
                        r |-> SCM_MAKE_INT(CRem(SCM_INT_VALUE(a), SCM_INT_VALUE(b)))])
            ELSE IF SCM_BIGNUMP(b) THEN [q |-> SCM_MAKE_INT(0), r |-> a]
            ELSE IF SCM_FLONUMP(b)
            THEN (IF ~FEqual(b, FFloor(b)) THEN fail(BADARG) ELSE Goto("DO_FLONUM"))
            ELSE fail(BADARG)
        ELSE IF SCM_BIGNUMP(a) THEN
            IF SCM_INTP(b)
            THEN (IF SCM_INT_VALUE(b) = 0 THEN u
                  ELSE LET d == Scm_BignumDivSI(a, SCM_INT_VALUE(b))
                       IN  [q |-> d.q, r |-> SCM_MAKE_INT(d.r)])
            ELSE IF SCM_BIGNUMP(b) THEN Scm_BignumDivRem(a, b)
            ELSE IF SCM_FLONUMP(b)
            THEN (IF ~FEqual(b, FFloor(b)) THEN fail(BADARG) ELSE Goto("DO_FLONUM"))
            ELSE fail(BADARG)
        ELSE IF SCM_FLONUMP(a) THEN
            IF ~FEqual(a, FFloor(a)) THEN fail(BADARG)
            ELSE IF SCM_INTP(b) \/ SCM_BIGNUMP(b) THEN Goto("DO_FLONUM")
            ELSE IF SCM_FLONUMP(b)
            THEN (IF ~FEqual(b, FFloor(b)) THEN fail(BADARG) ELSE Goto("DO_FLONUM"))
            ELSE fail(BADARG)
        ELSE fail(BADARG)
        )

\* remp selects remainder (TRUE) or modulo (FALSE).  u as in Scm_Quotient,
\* here the value the call goes on to return.
Scm_Modulo(a, b, remp, u) ==
    LET DO_FLONUM(rx, ry) ==
            IF FEqual(ry, FloZero(FALSE)) THEN DIVBYZERO
            ELSE LET adjust(r0) ==
                         IF /\ ~remp /\ ~FEqual(r0, FloZero(FALSE))
                            /\ \/ FLess(FloZero(FALSE), rx) /\ FLess(ry, FloZero(FALSE))
                               \/ FLess(rx, FloZero(FALSE)) /\ FLess(FloZero(FALSE), ry)
                         THEN Scm_MakeFlonum(FAdd(r0, ry))
                         ELSE Scm_MakeFlonum(r0)
                 IN  adjust(FMod(rx, ry))
        \* rx and ry are the operands converted to double.
        return(d) == IF d = Goto("DO_FLONUM")
                     THEN DO_FLONUM(Scm_GetDouble(a), Scm_GetDouble(b))
                     ELSE d
    IN  return(
        IF SCM_INTP(a) THEN
            IF SCM_INTP(b)
            THEN (IF SCM_INT_VALUE(b) = 0 THEN DIVBYZERO
                  ELSE LET va == SCM_INT_VALUE(a)
                           vb == SCM_INT_VALUE(b)
                           r0 == CRem(va, vb)
                       IN  IF ~remp /\ r0 # 0
                              /\ ((va > 0 /\ vb < 0) \/ (va < 0 /\ vb > 0))
                           THEN SCM_MAKE_INT(r0 + vb)
                           ELSE SCM_MAKE_INT(r0))
            ELSE IF SCM_BIGNUMP(b)
            THEN (IF remp THEN a
                  ELSE IF (SCM_INT_VALUE(a) < 0 /\ b.v > 0)
                          \/ (SCM_INT_VALUE(a) > 0 /\ b.v < 0)
                  THEN Scm_BignumAddSI(b, SCM_INT_VALUE(a))
                  ELSE a)
            ELSE IF SCM_FLONUMP(b)
            THEN (IF ~FEqual(b, FFloor(b)) THEN BADARG ELSE Goto("DO_FLONUM"))
            ELSE BADARG
        ELSE IF SCM_BIGNUMP(a) THEN
            IF SCM_INTP(b)
            THEN (IF SCM_INT_VALUE(b) = 0 THEN u
                  ELSE LET iy == SCM_INT_VALUE(b)
                           r0 == Scm_BignumDivSI(a, iy).r
                       IN  IF ~remp /\ r0 # 0
                              /\ ((a.v < 0 /\ iy > 0) \/ (a.v > 0 /\ iy < 0))
                           THEN SCM_MAKE_INT(iy + r0)
                           ELSE SCM_MAKE_INT(r0))
            ELSE IF SCM_BIGNUMP(b)
            THEN LET r0 == Scm_BignumDivRem(a, b).r
                 IN  IF ~remp /\ r0 # SCM_MAKE_INT(0) /\ ISign(a.v) * ISign(b.v) < 0
                     THEN (IF SCM_BIGNUMP(r0) THEN Scm_BignumAdd(b, r0)
                           ELSE Scm_BignumAddSI(b, SCM_INT_VALUE(r0)))
                     ELSE r0
            ELSE IF SCM_FLONUMP(b)
            THEN (IF ~FEqual(b, FFloor(b)) THEN BADARG ELSE Goto("DO_FLONUM"))
            ELSE BADARG
        ELSE IF SCM_FLONUMP(a) THEN
            IF ~FEqual(a, FFloor(a)) THEN BADARG
            ELSE IF SCM_INTP(b) \/ SCM_BIGNUMP(b) THEN Goto("DO_FLONUM")
            ELSE IF SCM_FLONUMP(b)
            THEN (IF ~FEqual(b, FFloor(b)) THEN BADARG ELSE Goto("DO_FLONUM"))
            ELSE BADARG
        ELSE BADARG
        )

\* A long converted to u_long.
ToULong(v) == v % Pow2(WordBits)

RECURSIVE gcd_fixfix(_, _)
\* assumes x > y >= 0; u_long arithmetic.
gcd_fixfix(a, b) == IF b > 0 THEN gcd_fixfix(b, a % b) ELSE a

RECURSIVE gcd_floflo_loop(_, _)
gcd_floflo_loop(a, b) ==
    IF FLess(FloZero(FALSE), b) THEN gcd_floflo_loop(b, FMod(a, b)) ELSE a

gcd_floflo(a, b) ==
    LET a1 == IF FLess(a, FloZero(FALSE)) THEN FNeg(a) ELSE a
        b1 == IF FLess(b, FloZero(FALSE)) THEN FNeg(b) ELSE b
    IN  IF FLess(a1, b1) THEN gcd_floflo_loop(b1, a1) ELSE gcd_floflo_loop(a1, b1)

\* b is a u_long not above LONG_MAX and not 0.
gcd_bigfix(a, b) ==
    LET r0 == Scm_BignumDivSI(a, b).r
        r1 == IF r0 < 0 THEN -r0 ELSE r0
    IN  gcd_fixfix(b, ToULong(r1))

\* Scm_GetIntegerClamp(obj, SCM_CLAMP_NONE, &oor) on an exact integer.
Scm_GetIntegerClamp_None(obj) ==
    IF SCM_INTP(obj) THEN [v |-> SCM_INT_VALUE(obj), oor |-> FALSE]
    ELSE Scm_BignumToSI(obj)

RECURSIVE gcd_loop(_, _)
\* The loop of the path that treats both arguments as bignums.
gcd_loop(a, b) ==
    IF ~SCM_EXACT_ZERO_P(b)
    THEN gcd_loop(b, Scm_Modulo(a, b, TRUE, Trap))
    ELSE a

Scm_Gcd(a, b) ==
    IF ~Scm_IntegerP(a) \/ ~Scm_IntegerP(b) THEN BADARG
    ELSE IF SCM_FLONUMP(a) \/ SCM_FLONUMP(b)
    THEN Scm_MakeFlonum(gcd_floflo(Scm_GetDouble(a), Scm_GetDouble(b)))
    ELSE IF SCM_EXACT_ZERO_P(a) THEN b
    ELSE IF SCM_EXACT_ZERO_P(b) THEN a
    ELSE LET cx == Scm_GetIntegerClamp_None(a)
             cy == Scm_GetIntegerClamp_None(b)
             ix == cx.v
             iy == cy.v
             ox == cx.oor
             oy == cy.oor
             ux == ToULong(IF ix < 0 THEN WrapLong(-ix) ELSE ix)
             uy == ToULong(IF iy < 0 THEN WrapLong(-iy) ELSE iy)
         IN  IF ~ox /\ ~oy
             THEN Scm_MakeIntegerU(IF ux >= uy THEN gcd_fixfix(ux, uy)
                                   ELSE gcd_fixfix(uy, ux))
             ELSE IF ~oy /\ iy # LONG_MIN
             THEN Scm_MakeIntegerU(gcd_bigfix(a, uy))
             ELSE IF ~ox /\ ix # LONG_MIN
             THEN Scm_MakeIntegerU(gcd_bigfix(b, ux))
             ELSE LET a1 == Scm_Abs_Integer(a)
                      b1 == Scm_Abs_Integer(b)
                  IN  IF Scm_NumCmp_Integer(a1, b1) < 0 THEN gcd_loop(b1, a1)
                      ELSE gcd_loop(a1, b1)

Scm_ReduceRational(rational) ==
    IF SCM_INTEGERP(rational) THEN rational
    ELSE IF ~SCM_RATNUMP(rational) THEN Err("type")
    ELSE LET negated == Scm_Sign(SCM_RATNUM_DENOM(rational)) < 0
             numer == IF negated THEN Scm_Negate_Integer(SCM_RATNUM_NUMER(rational))
                      ELSE SCM_RATNUM_NUMER(rational)
             denom == IF negated THEN Scm_Negate_Integer(SCM_RATNUM_DENOM(rational))
                      ELSE SCM_RATNUM_DENOM(rational)
             \* numer2, denom2: numer and denom divided by common
             collapse(numer2, denom2) ==
                 IF denom2 = SCM_MAKE_INT(1) THEN numer2
                 ELSE Scm_MakeRatnum(numer2, denom2)
             reduce(common) ==
                 IF SCM_EXACT_ONE_P(common)
                 THEN (IF negated THEN Scm_MakeRatnum(numer, denom)
                       ELSE rational)
                 ELSE collapse(
                     Scm_Quotient(numer, common, [q |-> Trap, r |-> NoValue]).q,
                     Scm_Quotient(denom, common, [q |-> Trap, r |-> NoValue]).q)
         IN  IF SCM_EXACT_ONE_P(denom) THEN numer
             ELSE IF SCM_EXACT_ZERO_P(denom)
             THEN LET s == Scm_Sign(numer)
                  IN  IF s > 0 THEN SCM_POSITIVE_INFINITY
                      ELSE IF s < 0 THEN SCM_NEGATIVE_INFINITY
                      ELSE SCM_NAN
             ELSE reduce(Scm_Gcd(numer, denom))

Scm_MakeRational(numer, denom) ==
    IF ~SCM_INTEGERP(numer) \/ ~SCM_INTEGERP(denom) THEN Err("type")
    ELSE IF SCM_EXACT_ONE_P(denom) THEN numer
    ELSE IF SCM_EXACT_ZERO_P(numer) THEN SCM_MAKE_INT(0)
    ELSE Scm_ReduceRational(Scm_MakeRatnum(numer, denom))

\* Scm_RatnumAddSub whose two one-sided shortcuts take the other
\* denominator without scaling the numerator.
Scm_RatnumAddSub_Unscaled(a, b, subtract) ==
    LET nx == IF SCM_RATNUMP(a) THEN SCM_RATNUM_NUMER(a) ELSE a
        dx == IF SCM_RATNUMP(a) THEN SCM_RATNUM_DENOM(a) ELSE SCM_MAKE_INT(1)
        ny == IF SCM_RATNUMP(b) THEN SCM_RATNUM_NUMER(b) ELSE b
        dy == IF SCM_RATNUMP(b) THEN SCM_RATNUM_DENOM(b) ELSE SCM_MAKE_INT(1)
        nodiv == [q |-> Trap, r |-> NoValue]
        \* The finish: label, entered with nx, ny and dr as t holds them.
        finish(t) ==
            Scm_MakeRational(IF subtract THEN Scm_Sub_Integer(t.nx, t.ny)
                             ELSE Scm_Add_Integer(t.nx, t.ny), t.dr)
        cross(fx, fy) ==
            [nx |-> Scm_Mul_Integer(nx, fy), ny |-> Scm_Mul_Integer(ny, fx),
             dr |-> Scm_Mul_Integer(dx, fy)]
        scale(gcd) ==
            IF Scm_NumCmp_Integer(dx, gcd) = 0
            THEN [nx |-> nx,
                  ny |-> ny, dr |-> dy]
            ELSE IF Scm_NumCmp_Integer(dy, gcd) = 0
            THEN [nx |-> nx,
                  ny |-> ny,
                  dr |-> dx]
            ELSE cross(Scm_Quotient(dx, gcd, nodiv).q, Scm_Quotient(dy, gcd, nodiv).q)
    IN  finish(IF Scm_NumCmp_Integer(dx, dy) = 0
               THEN [nx |-> nx, ny |-> ny, dr |-> dx]
               ELSE scale(IF SCM_EXACT_ONE_P(dx) \/ SCM_EXACT_ONE_P(dx)
                          THEN SCM_MAKE_INT(1) ELSE Scm_Gcd(dx, dy)))

\* x, y exact.  Quotients by dx, dy and gcd never divide by zero here.
Scm_RatnumAddSub(a, b, subtract) ==
    LET nx == IF SCM_RATNUMP(a) THEN SCM_RATNUM_NUMER(a) ELSE a
        dx == IF SCM_RATNUMP(a) THEN SCM_RATNUM_DENOM(a) ELSE SCM_MAKE_INT(1)
        ny == IF SCM_RATNUMP(b) THEN SCM_RATNUM_NUMER(b) ELSE b
        dy == IF SCM_RATNUMP(b) THEN SCM_RATNUM_DENOM(b) ELSE SCM_MAKE_INT(1)
        nodiv == [q |-> Trap, r |-> NoValue]
        \* The finish: label, entered with nx, ny and dr as t holds them.
        finish(t) ==
            Scm_MakeRational(IF subtract THEN Scm_Sub_Integer(t.nx, t.ny)
                             ELSE Scm_Add_Integer(t.nx, t.ny), t.dr)
        cross(fx, fy) ==
            [nx |-> Scm_Mul_Integer(nx, fy), ny |-> Scm_Mul_Integer(ny, fx),
             dr |-> Scm_Mul_Integer(dx, fy)]
        scale(gcd) ==
            IF Scm_NumCmp_Integer(dx, gcd) = 0
            THEN [nx |-> Scm_Mul_Integer(Scm_Quotient(dy, dx, nodiv).q, nx),
                  ny |-> ny, dr |-> dy]
            ELSE IF Scm_NumCmp_Integer(dy, gcd) = 0
            THEN [nx |-> nx,
                  ny |-> Scm_Mul_Integer(Scm_Quotient(dx, dy, nodiv).q, ny),
                  dr |-> dx]
            ELSE cross(Scm_Quotient(dx, gcd, nodiv).q, Scm_Quotient(dy, gcd, nodiv).q)
    IN  finish(IF Scm_NumCmp_Integer(dx, dy) = 0
               THEN [nx |-> nx, ny |-> ny, dr |-> dx]
               ELSE scale(IF SCM_EXACT_ONE_P(dx) \/ SCM_EXACT_ONE_P(dx)
                          THEN SCM_MAKE_INT(1) ELSE Scm_Gcd(dx, dy)))

Scm_RatnumMulDiv(a, b, divide) ==
    LET nx == IF SCM_RATNUMP(a) THEN SCM_RATNUM_NUMER(a) ELSE a
        dx == IF SCM_RATNUMP(a) THEN SCM_RATNUM_DENOM(a) ELSE SCM_MAKE_INT(1)
        ny0 == IF SCM_RATNUMP(b) THEN SCM_RATNUM_NUMER(b) ELSE b
        dy0 == IF SCM_RATNUMP(b) THEN SCM_RATNUM_DENOM(b) ELSE SCM_MAKE_INT(1)
        ny == IF divide THEN dy0 ELSE ny0
        dy == IF divide THEN ny0 ELSE dy0
    IN  Scm_MakeRational(Scm_Mul_Integer(nx, ny), Scm_Mul_Integer(dx, dy))

Scm_Abs(obj) ==
    IF SCM_INTP(obj) \/ SCM_BIGNUMP(obj) THEN Scm_Abs_Integer(obj)
    ELSE IF SCM_FLONUMP(obj)
    THEN (IF FLess(obj, FloZero(FALSE)) THEN Scm_MakeFlonum(FNeg(obj)) ELSE obj)
    ELSE IF SCM_RATNUMP(obj)
    THEN (IF Scm_Sign(SCM_RATNUM_NUMER(obj)) < 0
          THEN Scm_MakeRational(Scm_Negate_Integer(SCM_RATNUM_NUMER(obj)),
                                SCM_RATNUM_DENOM(obj))
          ELSE obj)
    ELSE Err("type")

Scm_Negate(obj) ==
    IF SCM_INTP(obj) \/ SCM_BIGNUMP(obj) THEN Scm_Negate_Integer(obj)
    ELSE IF SCM_FLONUMP(obj) THEN Scm_MakeFlonum(FNeg(obj))
    ELSE IF SCM_RATNUMP(obj)
    THEN Scm_MakeRational(Scm_Negate_Integer(SCM_RATNUM_NUMER(obj)), SCM_RATNUM_DENOM(obj))
    ELSE Err("generic")

Scm_Reciprocal(obj) ==
    IF SCM_INTP(obj) \/ SCM_BIGNUMP(obj) THEN Scm_MakeRational(SCM_MAKE_INT(1), obj)
    ELSE IF SCM_FLONUMP(obj)
    THEN Scm_MakeFlonum(FDiv(IntToDouble(1), obj))
    ELSE IF SCM_RATNUMP(obj)
    THEN Scm_MakeRational(SCM_RATNUM_DENOM(obj), SCM_RATNUM_NUMER(obj))
    ELSE Err("generic")

Scm_Add(arg0, arg1) ==
    LET return(d) == IF d = Goto("Scm_RatnumAddSub")
                     THEN Scm_RatnumAddSub(arg0, arg1, FALSE)
                     ELSE d
    IN  return(
        IF SCM_INTP(arg0) THEN
            IF SCM_INTP(arg1)
            THEN Scm_Add_Integer(arg0, arg1)
            ELSE IF SCM_EXACT_ZERO_P(arg0) THEN arg1
            ELSE IF SCM_BIGNUMP(arg1) THEN Scm_Add_Integer(arg0, arg1)
            ELSE IF SCM_RATNUMP(arg1) THEN Goto("Scm_RatnumAddSub")
            ELSE IF SCM_FLONUMP(arg1)
            THEN Scm_MakeFlonum(FAdd(IntToDouble(SCM_INT_VALUE(arg0)), arg1))
            ELSE Err("generic")
        ELSE IF SCM_BIGNUMP(arg0) THEN
            IF SCM_INTP(arg1)
            THEN Scm_Add_Integer(arg0, arg1)
            ELSE IF SCM_BIGNUMP(arg1) THEN Scm_Add_Integer(arg0, arg1)
            ELSE IF SCM_RATNUMP(arg1) THEN Goto("Scm_RatnumAddSub")
            ELSE IF SCM_FLONUMP(arg1)
            THEN Scm_MakeFlonum(FAdd(Scm_GetDouble(arg0), arg1))
            ELSE Err("generic")
        ELSE IF SCM_RATNUMP(arg0) THEN
            IF SCM_INTP(arg1)
            THEN (IF SCM_EXACT_ZERO_P(arg1) THEN arg0
                  ELSE Goto("Scm_RatnumAddSub"))
            ELSE IF SCM_BIGNUMP(arg1) \/ SCM_RATNUMP(arg1)
            THEN Goto("Scm_RatnumAddSub")
            ELSE IF SCM_FLONUMP(arg1)
            THEN Scm_MakeFlonum(FAdd(Scm_GetDouble(arg0), arg1))
            ELSE Err("generic")
        ELSE IF SCM_FLONUMP(arg0) THEN
            IF SCM_INTP(arg1)
            THEN (IF SCM_EXACT_ZERO_P(arg1) THEN arg0
                  ELSE Scm_MakeFlonum(FAdd(arg0, IntToDouble(SCM_INT_VALUE(arg1)))))
            ELSE IF SCM_BIGNUMP(arg1) \/ SCM_RATNUMP(arg1)
            THEN Scm_MakeFlonum(FAdd(arg0, Scm_GetDouble(arg1)))
            ELSE IF SCM_FLONUMP(arg1)
            THEN (IF FEqual(arg0, FloZero(FALSE)) THEN arg1
                  ELSE IF FEqual(arg1, FloZero(FALSE)) THEN arg0
                  ELSE Scm_MakeFlonum(FAdd(arg0, arg1)))
            ELSE Err("generic")
        ELSE Err("generic")
        )

Scm_Sub(arg0, arg1) ==
    LET return(d) == IF d = Goto("Scm_RatnumAddSub")
                     THEN Scm_RatnumAddSub(arg0, arg1, TRUE)
                     ELSE d
    IN  return(
        IF SCM_INTP(arg0) THEN
            IF SCM_INTP(arg1)
            THEN Scm_Sub_Integer(arg0, arg1)
            ELSE IF SCM_BIGNUMP(arg1) THEN Scm_Sub_Integer(arg0, arg1)
            ELSE IF SCM_RATNUMP(arg1) THEN Goto("Scm_RatnumAddSub")
            ELSE IF SCM_FLONUMP(arg1)
            THEN Scm_MakeFlonum(FSub(IntToDouble(SCM_INT_VALUE(arg0)), arg1))
            ELSE Err("generic")
        ELSE IF SCM_BIGNUMP(arg0) THEN
            IF SCM_INTP(arg1)
            THEN Scm_Sub_Integer(arg0, arg1)
            ELSE IF SCM_BIGNUMP(arg1) THEN Scm_Sub_Integer(arg0, arg1)
            ELSE IF SCM_RATNUMP(arg1) THEN Goto("Scm_RatnumAddSub")
            ELSE IF SCM_FLONUMP(arg1)
            THEN Scm_MakeFlonum(FSub(Scm_GetDouble(arg0), arg1))
            ELSE Err("generic")
        ELSE IF SCM_RATNUMP(arg0) THEN
            IF SCM_INTP(arg1)
            THEN (IF SCM_EXACT_ZERO_P(arg1) THEN arg0
                  ELSE Goto("Scm_RatnumAddSub"))
            ELSE IF SCM_BIGNUMP(arg1) \/ SCM_RATNUMP(arg1)
            THEN Goto("Scm_RatnumAddSub")
            ELSE IF SCM_FLONUMP(arg1)
            THEN (IF FEqual(arg1, FloZero(FALSE)) THEN arg0
                  ELSE Scm_MakeFlonum(FSub(Scm_GetDouble(arg0), arg1)))
            ELSE Err("generic")
        ELSE IF SCM_FLONUMP(arg0) THEN
            IF SCM_INTP(arg1)
            THEN (IF SCM_EXACT_ZERO_P(arg1) THEN arg0
                  ELSE Scm_MakeFlonum(FSub(arg0, IntToDouble(SCM_INT_VALUE(arg1)))))
            ELSE IF SCM_BIGNUMP(arg1) \/ SCM_RATNUMP(arg1)
            THEN Scm_MakeFlonum(FSub(arg0, Scm_GetDouble(arg1)))
            ELSE IF SCM_FLONUMP(arg1)
            THEN (IF FEqual(arg1, FloZero(FALSE)) THEN arg0
                  ELSE Scm_MakeFlonum(FSub(arg0, arg1)))
            ELSE Err("generic")
        ELSE Err("generic")
        )

Scm_Mul(arg0, arg1) ==
    LET return(d) == IF d = Goto("Scm_RatnumMulDiv")
                     THEN Scm_RatnumMulDiv(arg0, arg1, FALSE)
                     ELSE d
    IN  return(
        IF SCM_INTP(arg0) THEN
            IF SCM_INTP(arg1)
            THEN Scm_Mul_Integer(arg0, arg1)
            ELSE IF SCM_EXACT_ZERO_P(arg0) THEN arg0
            ELSE IF arg0 = SCM_MAKE_INT(1) THEN arg1
            ELSE IF SCM_BIGNUMP(arg1) THEN Scm_Mul_Integer(arg0, arg1)
            ELSE IF SCM_RATNUMP(arg1) THEN Goto("Scm_RatnumMulDiv")
            ELSE IF SCM_FLONUMP(arg1)
            THEN Scm_MakeFlonum(FMul(IntToDouble(SCM_INT_VALUE(arg0)), arg1))
            ELSE Err("generic")
        ELSE IF SCM_BIGNUMP(arg0) THEN
            IF SCM_INTP(arg1)
            THEN Scm_Mul_Integer(arg0, arg1)
            ELSE IF SCM_BIGNUMP(arg1) THEN Scm_Mul_Integer(arg0, arg1)
            ELSE IF SCM_RATNUMP(arg1) THEN Goto("Scm_RatnumMulDiv")
            ELSE IF SCM_FLONUMP(arg1)
            THEN Scm_MakeFlonum(FMul(Scm_GetDouble(arg0), arg1))
            ELSE Err("generic")
        ELSE IF SCM_RATNUMP(arg0) THEN
            IF SCM_INTP(arg1)
            THEN (IF SCM_EXACT_ZERO_P(arg1) THEN arg1
                  ELSE IF SCM_EXACT_ONE_P(arg1) THEN arg0
                  ELSE Goto("Scm_RatnumMulDiv"))
            ELSE IF SCM_BIGNUMP(arg1) \/ SCM_RATNUMP(arg1)
            THEN Goto("Scm_RatnumMulDiv")
            ELSE IF SCM_FLONUMP(arg1)
            THEN (IF FEqual(arg1, FloZero(FALSE)) THEN arg1
                  ELSE Scm_MakeFlonum(FMul(Scm_GetDouble(arg0), arg1)))
            ELSE Err("generic")
        ELSE IF SCM_FLONUMP(arg0) THEN
            IF SCM_INTP(arg1)
            THEN (IF SCM_EXACT_ZERO_P(arg1) THEN arg1
                  ELSE IF SCM_EXACT_ONE_P(arg1) THEN arg0
                  ELSE Scm_MakeFlonum(FMul(arg0, IntToDouble(SCM_INT_VALUE(arg1)))))
            ELSE IF SCM_BIGNUMP(arg1) \/ SCM_RATNUMP(arg1)
            THEN Scm_MakeFlonum(FMul(arg0, Scm_GetDouble(arg1)))
            ELSE IF SCM_FLONUMP(arg1)
            THEN (IF FEqual(arg1, IntToDouble(1)) THEN arg0
                  ELSE Scm_MakeFlonum(FMul(arg0, arg1)))
            ELSE Err("generic")
        ELSE Err("generic")
        )

\* Variants of the anormal: label: one that forgets the sign of the
\* dividend, one that raises the division-by-zero error instead.
ANORMAL_Unsigned(arg0) ==
    IF Scm_Sign(arg0) = 0 THEN SCM_NAN ELSE SCM_POSITIVE_INFINITY

ANORMAL_Raise(arg0) == DIVBYZERO

\* The anormal: label of div_internal: division by zero yields a signed
\* infinity or NaN according to the sign of the dividend.
ANORMAL(arg0) ==
    LET s == Scm_Sign(arg0)
    IN  IF s = 0 THEN SCM_NAN
        ELSE IF s < 0 THEN SCM_NEGATIVE_INFINITY
        ELSE SCM_POSITIVE_INFINITY

\* autocoerce is FALSE for Scm_Div and TRUE for Scm_DivInexact.
div_internal(arg0, arg1, autocoerce) ==
    LET COERCE_INEXACT(qr) ==
            IF SCM_EXACT_ZERO_P(qr.r) THEN qr.q
            ELSE Scm_MakeFlonum(FDiv(Scm_GetDouble(arg0), Scm_GetDouble(arg1)))
        \* return Scm_MakeRational(numer, denom), made once for all branches
        ToRational(numer, denom) ==
            [tag |-> "goto", to |-> "Scm_MakeRational", n |-> numer, d |-> denom]
        return(d) ==
            IF d = Goto("COERCE_INEXACT")
            THEN COERCE_INEXACT(Scm_Quotient(arg0, arg1, [q |-> Trap, r |-> NoValue]))
            ELSE IF d.tag = "goto" THEN Scm_MakeRational(d.n, d.d)
            ELSE d
    IN  return(
        IF SCM_INTP(arg0) THEN
            IF SCM_INTP(arg1)
            THEN (IF SCM_EXACT_ZERO_P(arg1) THEN ANORMAL(arg0)
                  ELSE IF SCM_EXACT_ZERO_P(arg0) THEN arg0
                  ELSE IF SCM_EXACT_ONE_P(arg1) THEN arg0
                  ELSE IF autocoerce
                  THEN (IF CRem(SCM_INT_VALUE(arg0), SCM_INT_VALUE(arg1)) = 0
                        THEN Scm_MakeInteger(CDiv(SCM_INT_VALUE(arg0),
                                                  SCM_INT_VALUE(arg1)))
                        ELSE Scm_MakeFlonum(FDiv(IntToDouble(SCM_INT_VALUE(arg0)),
                                                 IntToDouble(SCM_INT_VALUE(arg1)))))
                  ELSE ToRational(arg0, arg1))
            ELSE IF SCM_BIGNUMP(arg1)
            THEN (IF SCM_EXACT_ZERO_P(arg0) THEN arg0
                  ELSE IF autocoerce THEN Goto("COERCE_INEXACT")
                  ELSE ToRational(arg0, arg1))
            ELSE IF SCM_RATNUMP(arg1)
            THEN ToRational(Scm_Mul_Integer(arg0, SCM_RATNUM_DENOM(arg1)),
                                  SCM_RATNUM_NUMER(arg1))
            ELSE IF SCM_FLONUMP(arg1)
            THEN (IF FEqual(arg1, FloZero(FALSE)) THEN ANORMAL(arg0)
                  ELSE IF SCM_EXACT_ZERO_P(arg0) THEN arg0
                  ELSE Scm_MakeFlonum(FDiv(IntToDouble(SCM_INT_VALUE(arg0)), arg1)))
            ELSE Err("generic")
        ELSE IF SCM_BIGNUMP(arg0) THEN
            IF SCM_INTP(arg1)
            THEN (IF SCM_EXACT_ZERO_P(arg1) THEN ANORMAL(arg0)
                  ELSE IF SCM_EXACT_ONE_P(arg1) THEN arg0
                  ELSE IF autocoerce THEN Goto("COERCE_INEXACT")
                  ELSE ToRational(arg0, arg1))
            ELSE IF SCM_BIGNUMP(arg1)
            THEN (IF autocoerce THEN Goto("COERCE_INEXACT")
                  ELSE ToRational(arg0, arg1))
            ELSE IF SCM_RATNUMP(arg1)
            THEN ToRational(Scm_Mul_Integer(arg0, SCM_RATNUM_DENOM(arg1)),
                                  SCM_RATNUM_NUMER(arg1))
            ELSE IF SCM_FLONUMP(arg1)
            THEN (IF FEqual(arg1, FloZero(FALSE)) THEN ANORMAL(arg0)
                  ELSE Scm_MakeFlonum(FDiv(Scm_GetDouble(arg0), arg1)))
            ELSE Err("generic")
        ELSE IF SCM_RATNUMP(arg0) THEN
            IF SCM_INTP(arg1)
            THEN (IF SCM_EXACT_ZERO_P(arg1) THEN ANORMAL(arg0)
                  ELSE IF SCM_EXACT_ONE_P(arg1) THEN arg0
                  ELSE ToRational(SCM_RATNUM_NUMER(arg0),
                                        Scm_Mul_Integer(SCM_RATNUM_DENOM(arg0), arg1)))
            ELSE IF SCM_BIGNUMP(arg1)
            THEN ToRational(SCM_RATNUM_NUMER(arg0),
                                  Scm_Mul_Integer(SCM_RATNUM_DENOM(arg0), arg1))
            ELSE IF SCM_RATNUMP(arg1) THEN Scm_RatnumMulDiv(arg0, arg1, TRUE)
            ELSE IF SCM_FLONUMP(arg1)
            THEN (IF FEqual(arg1, FloZero(FALSE)) THEN ANORMAL(arg0)
                  ELSE Scm_MakeFlonum(FDiv(Scm_GetDouble(arg0), arg1)))
            ELSE Err("generic")
        ELSE IF SCM_FLONUMP(arg0) THEN
            IF SCM_INTP(arg1)
            THEN (IF SCM_EXACT_ZERO_P(arg1) THEN ANORMAL(arg0)
                  ELSE IF SCM_EXACT_ONE_P(arg1) THEN arg0
                  ELSE Scm_MakeFlonum(FDiv(arg0, IntToDouble(SCM_INT_VALUE(arg1)))))
            ELSE IF SCM_BIGNUMP(arg1) \/ SCM_RATNUMP(arg1)
            THEN Scm_MakeFlonum(FDiv(arg0, Scm_GetDouble(arg1)))
            ELSE IF SCM_FLONUMP(arg1)
            THEN (IF FEqual(arg1, FloZero(FALSE)) THEN ANORMAL(arg0)
                  ELSE Scm_MakeFlonum(FDiv(arg0, arg1)))
            ELSE Err("generic")
        ELSE Err("generic")
        )

Scm_Div(a, b) == div_internal(a, b, FALSE)

Scm_DivInexact(a, b) == div_internal(a, b, TRUE)

\* big_from_f64 of a finite double: rounds toward zero.
Scm_MakeBignumFromDouble(f) == [tag |-> "big", v |-> CDiv(FNum(f), f.d)]

\* The sign test the flonum branches of Scm_NumCmp make on r.
CmpDouble(r) ==
    IF FLess(r, FloZero(FALSE)) THEN -1
    ELSE IF FLess(FloZero(FALSE), r) THEN 1 ELSE 0

RECURSIVE Scm_NumCmp(_, _)
\* Returns -1, 0 or 1.  Operands are real numbers here, so the final
\* Scm_Error on a non-real operand is not reached.
Scm_NumCmp(arg0, arg1) ==
    IF SCM_INTP(arg0) THEN
        IF SCM_INTP(arg1)
        THEN Scm_NumCmp_Integer(arg0, arg1)
        ELSE IF SCM_FLONUMP(arg1)
        THEN CmpDouble(FSub(IntToDouble(SCM_INT_VALUE(arg0)), arg1))
        ELSE IF SCM_BIGNUMP(arg1)
        THEN Scm_NumCmp_Integer(arg0, arg1)
        ELSE CmpDouble(FSub(IntToDouble(SCM_INT_VALUE(arg0)), Scm_GetDouble(arg1)))
    ELSE IF SCM_FLONUMP(arg0) THEN
        IF SCM_INTP(arg1)
        THEN CmpDouble(FSub(arg0, IntToDouble(SCM_INT_VALUE(arg1))))
        ELSE IF SCM_FLONUMP(arg1) THEN CmpDouble(FSub(arg0, arg1))
        ELSE IF SCM_BIGNUMP(arg1)
        THEN Scm_BignumCmp(Scm_MakeBignumFromDouble(arg0), arg1)
        ELSE CmpDouble(FSub(arg0, Scm_GetDouble(arg1)))
    ELSE IF SCM_BIGNUMP(arg0) THEN
        IF SCM_INTP(arg1)
        THEN Scm_NumCmp_Integer(arg0, arg1)
        ELSE IF SCM_FLONUMP(arg1)
        THEN Scm_BignumCmp(arg0, Scm_MakeBignumFromDouble(arg1))
        ELSE IF SCM_BIGNUMP(arg1) THEN Scm_NumCmp_Integer(arg0, arg1)
        ELSE Scm_NumCmp_Integer(Scm_Mul_Integer(arg0, SCM_RATNUM_DENOM(arg1)),
                                SCM_RATNUM_NUMER(arg1))
    ELSE \* SCM_RATNUMP(arg0)
        IF SCM_INTP(arg1) \/ SCM_BIGNUMP(arg1) \/ SCM_FLONUMP(arg1)
        THEN -Scm_NumCmp(arg1, arg0)
        ELSE LET n0 == SCM_RATNUM_NUMER(arg0)
                 d0 == SCM_RATNUM_DENOM(arg0)
                 n1 == SCM_RATNUM_NUMER(arg1)
                 d1 == SCM_RATNUM_DENOM(arg1)
                 d == Scm_NumCmp_Integer(d0, d1)
                 n == Scm_NumCmp_Integer(n0, n1)
             IN  IF d = 0 THEN Scm_NumCmp_Integer(n0, n1)
                 ELSE IF d > 0 /\ n <= 0 THEN -1
                 ELSE IF d < 0 /\ n >= 0 THEN 1
                 ELSE Scm_NumCmp_Integer(Scm_Mul_Integer(n0, d1),
                                         Scm_Mul_Integer(n1, d0))

\* Complex numbers are outside the operand domain: the compnum branch is gone.
Scm_NumEq(arg0, arg1) == Scm_NumCmp(arg0, arg1) = 0

(***************************************************************************)
(* Rounding.                                                               *)
(***************************************************************************)
Scm_OddP(obj) ==
    IF SCM_INTP(obj) THEN SCM_INT_VALUE(obj) % 2 = 1
    ELSE IF SCM_BIGNUMP(obj) THEN IAbs(obj.v) % 2 = 1
    ELSE IF SCM_FLONUMP(obj) /\ Scm_IntegerP(obj)
         THEN ~FEqual(FMod(obj, IntToDouble(2)), FloZero(FALSE))
    ELSE FALSE

\* ceil() of <math.h>.
FCeil(f) == FNeg(FFloor(FNeg(f)))

RoundModes == {"SCM_ROUND_FLOOR", "SCM_ROUND_CEIL", "SCM_ROUND_TRUNC", "SCM_ROUND_ROUND"}

Scm_Round(num, mode) ==
    IF SCM_INTEGERP(num) THEN num
    ELSE IF SCM_RATNUMP(num) THEN
        LET \* rem2, cmp and the offset of SCM_ROUND_ROUND
            nearest(quot, rem2, sign) ==
                LET cmp == Scm_NumCmp_Integer(SCM_RATNUM_DENOM(num), rem2)
                IN  IF cmp > 0 THEN 0
                    ELSE IF cmp < 0 THEN (IF sign < 0 THEN -1 ELSE 1)
                    ELSE IF Scm_OddP(quot) THEN (IF sign < 0 THEN -1 ELSE 1)
                    ELSE 0
            select(quot, remd, sign) ==
                CASE mode = "SCM_ROUND_FLOOR" -> IF sign < 0 THEN -1 ELSE 0
                  [] mode = "SCM_ROUND_CEIL" -> IF sign < 0 THEN 0 ELSE 1
                  [] mode = "SCM_ROUND_TRUNC" -> 0
                  [] mode = "SCM_ROUND_ROUND" ->
                        nearest(quot,
                                Scm_Mul_Integer(Scm_Abs_Integer(remd), SCM_MAKE_INT(2)),
                                sign)
            finish(quot, offset) ==
                IF offset = 0 THEN quot
                ELSE Scm_Add_Integer(quot, SCM_MAKE_INT(offset))
            round(qr) ==
                IF SCM_EXACT_ZERO_P(qr.r) THEN qr.q
                ELSE finish(qr.q, select(qr.q, qr.r, Scm_Sign(num)))
        IN  round(Scm_Quotient(SCM_RATNUM_NUMER(num), SCM_RATNUM_DENOM(num),
                               [q |-> Trap, r |-> NoValue]))
    ELSE IF SCM_FLONUMP(num) THEN
        CASE mode = "SCM_ROUND_FLOOR" -> Scm_MakeFlonum(FFloor(num))
          [] mode = "SCM_ROUND_CEIL" -> Scm_MakeFlonum(FCeil(num))
          [] mode = "SCM_ROUND_TRUNC" ->
                Scm_MakeFlonum(IF FLess(num, FloZero(FALSE)) THEN FCeil(num)
                               ELSE FFloor(num))
          [] mode = "SCM_ROUND_ROUND" -> Scm_MakeFlonum(roundeven(num))
    ELSE Err("real number required")

(***************************************************************************)
(* Logical (bitwise) operations.  The bitwise primitives of the big-integer *)
(* library work on the two's-complement expansion of unbounded integers.   *)
(***************************************************************************)
RECURSIVE BitAnd(_, _)
BitAnd(a, b) ==
    IF a = 0 \/ b = 0 THEN 0
    ELSE IF a = -1 THEN b
    ELSE IF b = -1 THEN a
    ELSE 2 * BitAnd(a \div 2, b \div 2) + (a % 2) * (b % 2)
BitNot(a) == -1 - a
BitIor(a, b) == BitNot(BitAnd(BitNot(a), BitNot(b)))
BitXor(a, b) == BitIor(a, b) - BitAnd(a, b)

\* floor(a * 2^cnt), down-normalized.
Scm_BignumAsh(a, cnt) ==
    Scm_NormalizeBignum(IF cnt >= 0 THEN a.v * Pow2(cnt) ELSE a.v \div Pow2(-cnt))
Scm_BignumLogAnd(a, b) == Scm_NormalizeBignum(BitAnd(a.v, b.v))
Scm_BignumLogIor(a, b) == Scm_NormalizeBignum(BitIor(a.v, b.v))
Scm_BignumLogXor(a, b) == Scm_NormalizeBignum(BitXor(a.v, b.v))
\* SCM_BIGNUM_SIGN and the least significant word of the magnitude.
SCM_BIGNUM_SIGN(a) == ISign(a.v)
BignumValues0(a) == IAbs(a.v) % Pow2(WordBits)

EXACTREQ == Err("exact integer required")

\* A variant of Scm_Ash whose right shift drops the sign extension: it
\* rounds toward zero.
Scm_Ash_Truncating(a, cnt) ==
    IF SCM_INTEGERP(a)
    THEN Scm_NormalizeBignum(IF cnt >= 0 THEN a.v * Pow2(cnt)
                              ELSE CDiv(a.v, Pow2(-cnt)))
    ELSE EXACTREQ

Scm_Ash(a, cnt) ==
    IF SCM_INTP(a) THEN
        LET ix == SCM_INT_VALUE(a)
        IN  IF cnt <= -WordBits
            THEN Scm_MakeInteger(IF ix < 0 THEN -1 ELSE 0)
            ELSE IF cnt < 0
            THEN Scm_MakeInteger(IF ix < 0
                                 THEN BitNot(BitNot(ix) \div Pow2(-cnt))
                                 ELSE ix \div Pow2(-cnt))
            ELSE IF /\ cnt < WordBits - 3
                    /\ IF ix < 0 THEN -ix < SCM_SMALL_INT_MAX \div Pow2(cnt)
                       ELSE ix < SCM_SMALL_INT_MAX \div Pow2(cnt)
            THEN Scm_MakeInteger(WrapLong(ix * Pow2(cnt)))
            ELSE Scm_BignumAsh(Scm_MakeBignumFromSI(ix), cnt)
    ELSE IF SCM_BIGNUMP(a) THEN Scm_BignumAsh(a, cnt)
    ELSE EXACTREQ

\* SCM_BIGNUM(x) of an object that is no bignum reads the words of another
\* structure: wild is what the big-integer routine makes of them.
Scm_LogNot(a, wild) ==
    IF ~SCM_EXACTP(a) THEN EXACTREQ
    ELSE IF SCM_INTP(a) THEN SCM_MAKE_INT(BitNot(SCM_INT_VALUE(a)))
    ELSE IF SCM_BIGNUMP(a) THEN Scm_Negate_Integer(Scm_BignumAddSI(a, 1))
    ELSE wild

Scm_LogAnd(a, b, wild) ==
    IF ~SCM_EXACTP(a) THEN EXACTREQ
    ELSE IF ~SCM_EXACTP(b) THEN EXACTREQ
    ELSE IF SCM_INTP(a) /\ SCM_INTP(b)
    THEN SCM_MAKE_INT(BitAnd(SCM_INT_VALUE(a), SCM_INT_VALUE(b)))
    ELSE IF SCM_RATNUMP(a) \/ SCM_RATNUMP(b) THEN wild
    ELSE IF SCM_INTP(a) /\ SCM_INT_VALUE(a) >= 0 /\ SCM_BIGNUM_SIGN(b) >= 0
    THEN Scm_MakeInteger(BitAnd(SCM_INT_VALUE(a), BignumValues0(b)))
    ELSE IF SCM_INTP(b) /\ SCM_INT_VALUE(b) >= 0 /\ SCM_BIGNUM_SIGN(a) >= 0
    THEN Scm_MakeInteger(BitAnd(SCM_INT_VALUE(b), BignumValues0(a)))
    ELSE Scm_BignumLogAnd(Scm_MakeBignumFromSI(a.v), Scm_MakeBignumFromSI(b.v))

Scm_LogIor(a, b, wild) ==
    IF ~SCM_EXACTP(a) THEN EXACTREQ
    ELSE IF ~SCM_EXACTP(b) THEN EXACTREQ
    ELSE IF SCM_INTP(a) /\ SCM_INTP(b)
    THEN SCM_MAKE_INT(BitIor(SCM_INT_VALUE(a), SCM_INT_VALUE(b)))
    ELSE IF SCM_RATNUMP(a) \/ SCM_RATNUMP(b) THEN wild
    ELSE Scm_BignumLogIor(Scm_MakeBignumFromSI(a.v), Scm_MakeBignumFromSI(b.v))

Scm_LogXor(a, b, wild) ==
    IF ~SCM_EXACTP(a) THEN EXACTREQ
    ELSE IF ~SCM_EXACTP(b) THEN EXACTREQ
    ELSE IF SCM_INTP(a) /\ SCM_INTP(b)
    THEN SCM_MAKE_INT(BitXor(SCM_INT_VALUE(a), SCM_INT_VALUE(b)))
    ELSE IF SCM_RATNUMP(a) \/ SCM_RATNUMP(b) THEN wild
    ELSE Scm_BignumLogXor(Scm_MakeBignumFromSI(a.v), Scm_MakeBignumFromSI(b.v))

(***************************************************************************)
(* Number parser.  A string is a sequence of one-character strings; a      *)
(* position p stands for the pair (str, len) of the source, len being      *)
(* Len(s) - p + 1.  The buffer is NUL-terminated (Scm_GetStringContent),   *)
(* so the character at the end position is NUL.                            *)
(***************************************************************************)
SCM_FALSE == [tag |-> "false"]
SCM_FALSEP(o) == o = SCM_FALSE

CharAt(s, p) == IF p >= 1 /\ p <= Len(s) THEN s[p] ELSE "NUL"
RemLen(s, p) == Len(s) - p + 1

\* tab[] of read_uint.
DigitTab ==
    << "0", "1", "2", "3", "4", "5", "6", "7", "8", "9", "a", "b", "c", "d", "e",
       "f", "g", "h", "i", "j", "k", "l", "m", "n", "o", "p", "q", "r", "s", "t",
       "u", "v", "w", "x", "y", "z" >>
\* The value of c as a digit of the radix, or -1.
DigitVal(c, radix) ==
    IF \E i \in 1 .. radix : DigitTab[i] = c
    THEN (CHOOSE i \in 1 .. radix : DigitTab[i] = c) - 1
    ELSE -1
isdigit(c) == DigitVal(c, 10) >= 0

\* struct numread_packet without the buffer.
NumreadPacket(radix, strict) ==
    [radix |-> radix, exactness |-> "NOEXACT", padread |-> FALSE, strict |-> strict]

NUMREAD_ERROR == Err("bad number format")
\* numread_error without its test of the strict flag.
numread_error_Always(ctx) == NUMREAD_ERROR
numread_error(ctx) == IF ctx.strict THEN NUMREAD_ERROR ELSE SCM_FALSE

\* One turn of the while loop of read_uint on the character c: the digit
\* value it finds (-1 leaves the loop) and the packet and digread after it.
read_uint_step(c, ctx, digread) ==
    IF ctx.padread
    THEN [digval |-> IF c = "#" THEN 0 ELSE -1, ctx |-> ctx, digread |-> digread]
    ELSE IF digread /\ c = "#"
    THEN [digval |-> 0,
          ctx |-> [ctx EXCEPT !.padread = TRUE,
                              !.exactness = IF @ = "NOEXACT" THEN "INEXACT" ELSE @],
          digread |-> digread]
    ELSE [digval |-> DigitVal(c, ctx.radix), ctx |-> ctx,
          digread |-> digread \/ DigitVal(c, ctx.radix) >= 0]

\* The while loop of read_uint.  value stands for the pair (value_big,
\* value_int): the digits read so far, as one unbounded integer.
RECURSIVE read_uint_loop(_, _, _, _, _)
read_uint_loop(s, p, ctx, digread, value) ==
    LET next(st) ==
            IF st.digval < 0
            THEN [v |-> Scm_NormalizeBignum(value), p |-> p, ctx |-> ctx]
            ELSE read_uint_loop(s, p + 1, st.ctx, st.digread,
                                value * ctx.radix + st.digval)
    IN  IF p > Len(s)
        THEN [v |-> Scm_NormalizeBignum(value), p |-> p, ctx |-> ctx]
        ELSE next(read_uint_step(s[p], ctx, digread))

\* The position after the leading zeros read_uint skips.
RECURSIVE SkipZeros(_, _)
SkipZeros(s, p) == IF CharAt(s, p) = "0" THEN SkipZeros(s, p + 1) ELSE p

\* Returns [v, p, ctx]: the integer read, the position of the first
\* character not consumed and the packet.  initval is SCM_FALSE or the
\* integer the digits are appended to.
read_uint(s, p, ctx, initval) ==
    IF ~SCM_FALSEP(initval)
    THEN read_uint_loop(s, p, ctx, TRUE, initval.v)
    ELSE IF CharAt(s, p) = "0"
    THEN read_uint_loop(s, SkipZeros(s, p), ctx, TRUE, 0)
    ELSE read_uint_loop(s, p, ctx, FALSE, 0)

\* Conversion and complex constructors the parser returns through.
Scm_ExactToInexact(obj) ==
    IF SCM_INTP(obj) THEN Scm_MakeFlonum(IntToDouble(SCM_INT_VALUE(obj)))
    ELSE IF SCM_BIGNUMP(obj) THEN Scm_MakeFlonum(Scm_BignumToDouble(obj))
    ELSE IF SCM_RATNUMP(obj) THEN Scm_MakeFlonum(Scm_GetDouble(obj))
    ELSE obj

SCM_COMPNUMP(o) == o.tag = "comp"
Scm_MakeCompnum(r, i) == [tag |-> "comp", re |-> r, im |-> i]
Scm_MakeComplex(r, i) ==
    IF FIsZero(i) THEN Scm_MakeFlonum(r) ELSE Scm_MakeCompnum(r, i)

\* cos() and sin() are not computed.  mag * sin(angle) is 0.0 exactly when
\* angle is zero and mag is finite, or mag is zero and angle is finite; in
\* the second case the zero returned carries the sign of mag * cos(angle).
\* Every other pair yields a compnum, kept as the pair (mag, angle).
Scm_MakeComplexPolar(mag, angle) ==
    IF FIsZero(angle) /\ ~FIsNaN(mag) /\ ~FIsInf(mag) THEN Scm_MakeFlonum(mag)
    ELSE IF FIsZero(mag) /\ ~FIsNaN(angle) /\ ~FIsInf(angle)
    THEN [tag |-> "flo", c |-> "polarzero", mag |-> mag, angle |-> angle]
    ELSE [tag |-> "comp", mag |-> mag, angle |-> angle]

\* Largest exponent e for which the model computes 10^e as an integer.
MaxPow10 == 6

RECURSIVE Pow10(_)
Pow10(n) == IF n <= 0 THEN 1 ELSE 10 * Pow10(n - 1)

IEXPT10_TABLESIZ == 341
\* iexpt10_n[e], built by iexpt10_init with exact multiplications.
iexpt10(e) == Scm_NormalizeBignum(Pow10(e))

\* The loop without the multiplication for an odd exponent.
RECURSIVE exact_expt_loop_EvenOnly(_, _, _)
exact_expt_loop_EvenOnly(r, b, iy) ==
    IF iy = 0 THEN r
    ELSE IF iy = 1 THEN Scm_Mul(r, b)
    ELSE exact_expt_loop_EvenOnly(r, Scm_Mul(b, b), iy \div 2)

\* The general-case loop of exact_expt.
RECURSIVE exact_expt_loop(_, _, _)
exact_expt_loop(r, b, iy) ==
    IF iy = 0 THEN r
    ELSE IF iy = 1 THEN Scm_Mul(r, b)
    ELSE exact_expt_loop(IF iy % 2 = 1 THEN Scm_Mul(r, b) ELSE r,
                         Scm_Mul(b, b), iy \div 2)

\* r of exact_expt before the final reciprocal.
exact_expt_power(b, iy) ==
    IF b = SCM_MAKE_INT(10) /\ iy > 0 /\ iy < IEXPT10_TABLESIZ THEN iexpt10(iy)
    ELSE IF b = SCM_MAKE_INT(2) /\ iy > 0 THEN Scm_Ash(SCM_MAKE_INT(1), iy)
    ELSE exact_expt_loop(SCM_MAKE_INT(1), b, IAbs(iy))

exact_expt_return(r, sign) == IF sign < 0 THEN Scm_Reciprocal(r) ELSE r

exact_expt(b, e) ==
    IF Scm_Sign(e) = 0 THEN SCM_MAKE_INT(1)
    ELSE IF b = SCM_MAKE_INT(1) THEN SCM_MAKE_INT(1)
    ELSE IF b = SCM_MAKE_INT(-1)
    THEN (IF Scm_OddP(e) THEN SCM_MAKE_INT(-1) ELSE SCM_MAKE_INT(1))
    ELSE IF ~SCM_INTP(e) THEN Err("exponent too big")
    ELSE exact_expt_return(exact_expt_power(b, SCM_INT_VALUE(e)), Scm_Sign(e))

\* The exact branch of Scm_Expt; every other pair of arguments goes on to
\* pow() of <math.h>, which the model does not compute.
Scm_Expt(b, e) ==
    IF SCM_EXACTP(b) /\ SCM_INTEGERP(e) THEN exact_expt(b, e)
    ELSE Goto("pow")

\* max N where 10.0^N is taken to be exact in a double, at the scale of
\* MantBits: the largest N with 5^N < 2^(MantBits + 1), as 23 is for 53 bits.
MAX_EXACT_10_EXP ==
    CHOOSE n \in 0 .. MantBits + 1 :
        /\ Pow10(n) \div Pow2(n) < Pow2(MantBits + 1)
        /\ Pow10(n + 1) \div Pow2(n + 1) >= Pow2(MantBits + 1)

\* dpow10[n]: the double literal 1.0e<n>.
dpow10(n) == RoundDouble(FALSE, Pow10(n), 1)

RECURSIVE raise_pow10(_, _)
raise_pow10(xd, n) ==
    IF n >= 0
    THEN (IF n > MAX_EXACT_10_EXP
          THEN raise_pow10(FMul(xd, dpow10(MAX_EXACT_10_EXP + 1)),
                           n - (MAX_EXACT_10_EXP + 1))
          ELSE FMul(xd, dpow10(n)))
    ELSE (IF n < -MAX_EXACT_10_EXP
          THEN raise_pow10(FDiv(xd, dpow10(MAX_EXACT_10_EXP + 1)),
                           n + (MAX_EXACT_10_EXP + 1))
          ELSE FDiv(xd, dpow10(-n)))

\* SCM_2_52 and SCM_2_53 at the scale of MantBits.
SCM_2_52 == Pow2(MantBits - 1)
SCM_2_53 == Pow2(MantBits)

\* Scm_DecodeFlonum of a positive finite double: z = m * 2^k with
\* SCM_2_52 <= m < SCM_2_53 (the model has no subnormals).
Scm_DecodeFlonum(z) ==
    LET k == FloorLog2(z.n, z.d) - (MantBits - 1)
    IN  [m |-> IF k >= 0 THEN z.n \div (z.d * Pow2(k))
                ELSE (z.n * Pow2(-k)) \div z.d,
         k |-> k]

\* ldexp(Scm_GetDouble(m), k).
ldexp(m, k) ==
    IF k >= 0 THEN RoundDouble(FALSE, m * Pow2(k), 1)
    ELSE RoundDouble(FALSE, m, Pow2(-k))

\* x and y of algorithmR as the retry: label sets them.  f, m, x and y are
\* exact integers throughout; they are kept as unbounded integers, on which
\* Scm_Mul, Scm_Sub, Scm_Ash and Scm_NumCmp are exact.
algorithmR_x(f, e, k) ==
    IF k >= 0 THEN (IF e >= 0 THEN f * Pow10(e) ELSE f)
    ELSE (IF e >= 0 THEN f * Pow10(e) * Pow2(-k) ELSE f * Pow2(-k))
algorithmR_y(m, e, k) ==
    IF k >= 0 THEN (IF e >= 0 THEN m * Pow2(k) ELSE m * Pow10(-e) * Pow2(k))
    ELSE (IF e >= 0 THEN m ELSE m * Pow10(-e))

\* The compare loop of algorithmR: one turn decides to return, or steps m
\* (prevfloat, nextfloat) and goes to next:, which keeps x when k has the
\* sign and the value it had at the last retry.
RECURSIVE algorithmR_loop(_, _, _, _, _, _, _)
algorithmR_loop(f, e, m, k, kprev, xv, yv) ==
    LET sign_d == ISign(xv - yv)
        abs_d == IAbs(xv - yv)
        d2 == 2 * m * abs_d
        cmp == ISign(d2 - yv)
        verdict ==
            IF cmp < 0
            THEN (IF m = SCM_2_52 /\ sign_d < 0 /\ 2 * d2 > yv
                  THEN "prevfloat" ELSE "return")
            ELSE IF cmp = 0
            THEN (IF m % 2 = 0
                  THEN (IF m = SCM_2_52 /\ sign_d < 0 THEN "prevfloat" ELSE "return")
                  ELSE IF sign_d < 0 THEN "prevfloat" ELSE "nextfloat")
            ELSE IF sign_d < 0 THEN "prevfloat" ELSE "nextfloat"
        \* the model has no least exponent: k > -1074 always holds
        stepped ==
            IF verdict = "prevfloat"
            THEN (IF m - 1 < SCM_2_52 THEN [m |-> 2 * (m - 1), k |-> k - 1]
                  ELSE [m |-> m - 1, k |-> k])
            ELSE (IF m + 1 >= SCM_2_53 THEN [m |-> (m + 1) \div 2, k |-> k + 1]
                  ELSE [m |-> m + 1, k |-> k])
        next(m1, k1) ==
            IF (kprev >= 0) # (k1 >= 0)
            THEN algorithmR_loop(f, e, m1, k1, k1,
                                 algorithmR_x(f, e, k1), algorithmR_y(m1, e, k1))
            ELSE algorithmR_loop(f, e, m1, k1, kprev,
                                 IF k1 < 0 /\ k1 # kprev
                                 THEN algorithmR_x(f, e, k1) ELSE xv,
                                 algorithmR_y(m1, e, k1))
    IN  IF verdict = "return" THEN ldexp(m, k)
        ELSE next(stepped.m, stepped.k)

\* algorithmR from its retry: label on, with the decoded z.
algorithmR_retry(f, e, d) ==
    algorithmR_loop(f, e, d.m, d.k, d.k,
                    algorithmR_x(f, e, d.k), algorithmR_y(d.m, e, d.k))

algorithmR(f, e, z) == algorithmR_retry(f, e, Scm_DecodeFlonum(z))

SignedInfinity(minusp) ==
    IF minusp THEN SCM_NEGATIVE_INFINITY ELSE SCM_POSITIVE_INFINITY

\* Exponents the comment at MAX_EXPONENT gives for an IEEE double.
MAX_EXPONENT == 324
DBL_MAX_10_EXP == 308

\* A number fraction * 10^e with |e| > MaxPow10 is outside the arithmetic of
\* the model and is kept as the pair (fraction, e).  FarExact is the product
\* Scm_Mul(fraction, exact_expt(10, e)): a bignum for e > 0, a ratnum for
\* e < 0 (the mantissas of the model have fewer than MaxPow10 digits).
\* FarInexact is the double read_real composes: above DBL_MAX_10_EXP
\* raise_pow10 overflows to infinity; otherwise the double stays the pair,
\* and nothing is said of where in the range of a double it lies.
FarExact(minusp, fraction, e) ==
    IF SCM_EXACT_ZERO_P(fraction) THEN SCM_MAKE_INT(0)
    ELSE [tag |-> IF e > 0 THEN "big" ELSE "rat", far |-> TRUE,
          f |-> IF minusp THEN -fraction.v ELSE fraction.v, e |-> e]
FarInexact(minusp, fraction, e) ==
    IF SCM_EXACT_ZERO_P(fraction) THEN FloZero(minusp)
    ELSE IF e > DBL_MAX_10_EXP
    THEN (IF minusp THEN SCM_NEGATIVE_INFINITY ELSE SCM_POSITIVE_INFINITY)
    ELSE [tag |-> "flo", c |-> "far", neg |-> minusp, f |-> fraction.v, e |-> e]

\* What read_real returns: the object (SCM_FALSE, or the error it leaves
\* through), the position reached and the packet.
ReadResult(v, p, ctx) == [v |-> v, p |-> p, ctx |-> ctx]

\* "Compose the number" of read_real, e being exponent - fracdigs: the
\* exact branch, the end of the inexact branch from the SCM_IS_INF test on,
\* and the two together.
NegateWhen(minusp, obj) == IF minusp THEN Scm_Negate(obj) ELSE obj
FNegWhen(minusp, f) == IF minusp THEN FNeg(f) ELSE f

read_real_exact(minusp, fraction, e) ==
    IF IAbs(e) > MaxPow10 THEN FarExact(minusp, fraction, e)
    ELSE NegateWhen(minusp,
                    Scm_Mul(fraction,
                            exact_expt(SCM_MAKE_INT(10), Scm_MakeInteger(e))))

read_real_refine(fraction, e, realnum) ==
    IF /\ FLess(FloZero(FALSE), realnum)
       /\ \/ fraction.v > SCM_2_52
          \/ e > MAX_EXACT_10_EXP
          \/ e < -MAX_EXACT_10_EXP
    THEN algorithmR(fraction.v, e, realnum)
    ELSE realnum

read_real_inexact(minusp, fraction, e, realnum) ==
    IF FIsInf(realnum) THEN SignedInfinity(minusp)
    ELSE Scm_MakeFlonum(FNegWhen(minusp, read_real_refine(fraction, e, realnum)))

read_real_compose(p, ctx, minusp, fraction, e) ==
    IF ctx.exactness = "EXACT"
    THEN ReadResult(read_real_exact(minusp, fraction, e), p, ctx)
    ELSE IF IAbs(e) > MaxPow10
    THEN ReadResult(FarInexact(minusp, fraction, e), p, ctx)
    ELSE ReadResult(read_real_inexact(minusp, fraction, e,
                                      raise_pow10(Scm_GetDouble(fraction), e)),
                    p, ctx)

\* The digits of the exponent: [exponent, exp_overflow, p].
\* The digit loop with the limit test as "exponent > MAX_EXPONENT".
RECURSIVE read_exponent_digits_Above(_, _, _, _)
read_exponent_digits_Above(s, p, exponent, exp_overflow) ==
    IF RemLen(s, p) > 0 /\ isdigit(s[p])
    THEN (IF exp_overflow
          THEN read_exponent_digits_Above(s, p + 1, exponent, TRUE)
          ELSE read_exponent_digits_Above(s, p + 1,
                                          exponent * 10 + DigitVal(s[p], 10),
                                          exponent * 10 + DigitVal(s[p], 10)
                                              > MAX_EXPONENT))
    ELSE [exponent |-> exponent, exp_overflow |-> exp_overflow, p |-> p]
RECURSIVE read_exponent_digits(_, _, _, _)
read_exponent_digits(s, p, exponent, exp_overflow) ==
    IF RemLen(s, p) > 0 /\ isdigit(s[p])
    THEN (IF exp_overflow
          THEN read_exponent_digits(s, p + 1, exponent, TRUE)
          ELSE read_exponent_digits(s, p + 1, exponent * 10 + DigitVal(s[p], 10),
                                    exponent * 10 + DigitVal(s[p], 10) >= MAX_EXPONENT))
    ELSE [exponent |-> exponent, exp_overflow |-> exp_overflow, p |-> p]

ExponentMarkers == {"e", "E", "s", "S", "f", "F", "d", "D", "l", "L"}

\* read_real from the exp_overflow test on; ex is what the exponent's
\* digits gave.
read_real_overflow(ex, ctx, minusp, exp_minusp, fraction, fracdigs) ==
    IF ex.exp_overflow
    THEN (IF ctx.exactness = "EXACT"
          THEN ReadResult(numread_error(ctx), ex.p, ctx)
          ELSE IF exp_minusp
          THEN ReadResult(Scm_MakeFlonum(FloZero(FALSE)), ex.p, ctx)
          ELSE ReadResult(SignedInfinity(minusp), ex.p, ctx))
    ELSE read_real_compose(ex.p, ctx, minusp, fraction,
                           (IF exp_minusp THEN -ex.exponent ELSE ex.exponent)
                           - fracdigs)

\* "Read exponent" of read_real and what follows it.
read_real_exponent(s, p, ctx, minusp, fraction, fracdigs) ==
    LET exp_sign == CharAt(s, p + 1) \in {"-", "+"}
        marker == RemLen(s, p) > 0 /\ CharAt(s, p) \in ExponentMarkers
    IN  IF marker /\ RemLen(s, p + 1) <= 0 THEN ReadResult(SCM_FALSE, p + 1, ctx)
        ELSE IF marker /\ exp_sign /\ RemLen(s, p + 2) <= 0
        THEN ReadResult(SCM_FALSE, p + 2, ctx)
        ELSE read_real_overflow(
                 IF marker
                 THEN read_exponent_digits(s, IF exp_sign THEN p + 2 ELSE p + 1,
                                           0, FALSE)
                 ELSE [exponent |-> 0, exp_overflow |-> FALSE, p |-> p],
                 ctx, minusp, marker /\ CharAt(s, p + 1) = "-", fraction, fracdigs)

\* read_real from the test for the input "." on; fr is the fraction read
\* and lensave the position its digits start at.
read_real_point(s, fr, minusp, intpart, lensave) ==
    IF SCM_FALSEP(intpart) /\ fr.p - lensave = 0
    THEN ReadResult(SCM_FALSE, fr.p, fr.ctx)
    ELSE read_real_exponent(s, fr.p, fr.ctx, minusp, fr.v, fr.p - lensave)

\* "Read fractional part" of read_real.  intpart is SCM_FALSE when the
\* number starts with the point.
read_real_fraction(s, p, ctx, minusp, intpart) ==
    IF CharAt(s, p) = "." /\ ctx.radix # 10
    THEN ReadResult(numread_error(ctx), p, ctx)
    ELSE IF CharAt(s, p) = "."
    THEN read_real_point(s, read_uint(s, p + 1, ctx, intpart), minusp, intpart,
                         p + 1)
    ELSE read_real_point(s, ReadResult(intpart, p, ctx), minusp, intpart, p)

\* The value of the "possibly rational" branch once the denominator dn is
\* read; p is the position of the slash.
read_real_ratio(dn, p, minusp, intpart) ==
    IF SCM_EXACT_ZERO_P(dn.v)
    THEN (IF dn.p > p + 1
          THEN (IF dn.ctx.exactness = "EXACT" THEN numread_error(dn.ctx)
                ELSE IF SCM_EXACT_ZERO_P(intpart) THEN SCM_NAN
                ELSE SignedInfinity(minusp))
          ELSE SCM_FALSE)
    ELSE IF dn.ctx.exactness = "INEXACT"
    THEN Scm_ExactToInexact(Scm_Div(intpart, dn.v))
    ELSE Scm_MakeRational(intpart, dn.v)

\* intpart is negated only past the zero-denominator returns.
read_real_denom(dn, p, minusp, intpart) ==
    ReadResult(read_real_ratio(dn, p, minusp,
                               IF minusp /\ ~SCM_EXACT_ZERO_P(dn.v)
                               THEN Scm_Negate_Integer(intpart) ELSE intpart),
               dn.p, dn.ctx)

\* The "possibly rational" branch of read_real: the slash is at p.
read_real_rational(s, p, ctx, minusp, intpart) ==
    IF RemLen(s, p) <= 1 THEN ReadResult(SCM_FALSE, p, ctx)
    ELSE read_real_denom(read_uint(s, p + 1, ctx, SCM_FALSE), p, minusp, intpart)

ExactToInexactWhen(inexact, obj) ==
    IF inexact THEN Scm_ExactToInexact(obj) ELSE obj

\* read_real after its integral part ip; ip.v is SCM_FALSE when the number
\* starts with the point ("there was no intpart").
read_real_integral(s, ip, minusp) ==
    IF ~SCM_FALSEP(ip.v) /\ RemLen(s, ip.p) <= 0
    THEN ReadResult(ExactToInexactWhen(ip.ctx.exactness = "INEXACT",
                                       IF minusp THEN Scm_Negate_Integer(ip.v)
                                       ELSE ip.v),
                    ip.p, ip.ctx)
    ELSE IF ~SCM_FALSEP(ip.v) /\ CharAt(s, ip.p) = "/"
    THEN read_real_rational(s, ip.p, ip.ctx, minusp, ip.v)
    ELSE read_real_fraction(s, ip.p, ip.ctx, minusp, ip.v)

\* The position after the sign of a real that starts at p.
AfterSign(s, p) == IF CharAt(s, p) \in {"-", "+"} THEN p + 1 ELSE p

read_real(s, p, ctx) ==
    IF RemLen(s, AfterSign(s, p)) <= 0
    THEN ReadResult(SCM_FALSE, AfterSign(s, p), ctx)
    ELSE read_real_integral(s,
                            IF CharAt(s, AfterSign(s, p)) # "."
                            THEN read_uint(s, AfterSign(s, p), ctx, SCM_FALSE)
                            ELSE ReadResult(SCM_FALSE, AfterSign(s, p), ctx),
                            CharAt(s, p) = "-")

\* The prefix loop of read_number: [fail, p, len, ctx].  len is the loop's
\* own counter, stepped by two while p advances by two.
RECURSIVE read_number_prefix(_, _, _, _, _, _)
read_number_prefix(s, p, len, ctx, radix_seen, exactness_seen) ==
    LET c == CharAt(s, p + 1)
        done(fail) == [fail |-> fail, p |-> p, len |-> len, ctx |-> ctx]
        radix(r) ==
            IF radix_seen THEN done(TRUE)
            ELSE read_number_prefix(s, p + 2, len - 2, [ctx EXCEPT !.radix = r],
                                    TRUE, exactness_seen)
        exactness(e) ==
            IF exactness_seen THEN done(TRUE)
            ELSE read_number_prefix(s, p + 2, len - 2, [ctx EXCEPT !.exactness = e],
                                    radix_seen, TRUE)
    IN  IF len < 0 \/ CharAt(s, p) # "#" THEN done(FALSE)
        ELSE IF c \in {"x", "X"} THEN radix(16)
        ELSE IF c \in {"o", "O"} THEN radix(8)
        ELSE IF c \in {"b", "B"} THEN radix(2)
        ELSE IF c \in {"d", "D"} THEN radix(10)
        ELSE IF c \in {"e", "E"} THEN exactness("EXACT")
        ELSE IF c \in {"i", "I"} THEN exactness("INEXACT")
        ELSE done(TRUE)

\* CHK_EXACT_COMPLEX followed by the value the code returns after it.
CHK_EXACT_COMPLEX(ctx, v) == IF ctx.exactness = "EXACT" THEN numread_error(ctx) ELSE v

FloOne(minusp) == [tag |-> "flo", c |-> "fin", neg |-> minusp, n |-> 1, d |-> 1]

\* The polar branch of read_number once the angle is read.  A strict-mode
\* error leaves through Scm_Error wherever it is raised.
read_number_polar(s, realpart, angle) ==
    IF IsErr(angle.v) THEN angle.v
    ELSE IF SCM_FALSEP(angle.v) \/ RemLen(s, angle.p) # 0 THEN SCM_FALSE
    ELSE CHK_EXACT_COMPLEX(angle.ctx,
                           Scm_MakeComplexPolar(Scm_GetDouble(realpart),
                                                Scm_GetDouble(angle.v)))

\* The rectangular branch of read_number once the imaginary part is read.
read_number_rectangular(s, realpart, imagpart) ==
    IF IsErr(imagpart.v) THEN imagpart.v
    ELSE IF \/ SCM_FALSEP(imagpart.v)
            \/ RemLen(s, imagpart.p) # 1
            \/ CharAt(s, imagpart.p) # "i"
    THEN SCM_FALSE
    ELSE CHK_EXACT_COMPLEX(imagpart.ctx,
                           IF Scm_Sign(imagpart.v) = 0 THEN realpart
                           ELSE Scm_MakeComplex(Scm_GetDouble(realpart),
                                                Scm_GetDouble(imagpart.v)))

\* read_number calls read_real for the real part and again for the angle or
\* the imaginary part.  read_number_part is that call and what follows it:
\* entered with realpart = NoValue it reads the real part, entered with the
\* real part and the character after it ("@" or a sign) it reads the second
\* part.
RECURSIVE read_number_part(_, _, _, _, _, _)

\* read_number after its first read_real: rp is what that call returned.
read_number_realpart(s, rp, sign_seen) ==
    IF SCM_FALSEP(rp.v) \/ IsErr(rp.v) \/ RemLen(s, rp.p) = 0 THEN rp.v
    ELSE IF CharAt(s, rp.p) = "@"
    THEN (IF RemLen(s, rp.p) <= 1 THEN SCM_FALSE
          ELSE read_number_part(s, rp.p + 1, rp.ctx, sign_seen, rp.v, "@"))
    ELSE IF CharAt(s, rp.p) \in {"+", "-"}
    THEN (IF RemLen(s, rp.p) <= 1 THEN SCM_FALSE
          ELSE IF RemLen(s, rp.p) = 2 /\ CharAt(s, rp.p + 1) = "i"
          THEN Scm_MakeComplex(Scm_GetDouble(rp.v), FloOne(CharAt(s, rp.p) = "-"))
          ELSE read_number_part(s, rp.p, rp.ctx, sign_seen, rp.v, "+"))
    ELSE IF CharAt(s, rp.p) = "i"
    THEN (IF ~sign_seen \/ RemLen(s, rp.p) # 1 THEN SCM_FALSE
          ELSE CHK_EXACT_COMPLEX(rp.ctx,
                                 IF Scm_Sign(rp.v) = 0
                                 THEN Scm_MakeFlonum(FloZero(FALSE))
                                 ELSE Scm_MakeComplex(FloZero(FALSE),
                                                      Scm_GetDouble(rp.v))))
    ELSE SCM_FALSE

read_number_after(s, sign_seen, realpart, mark, r) ==
    IF realpart = NoValue THEN read_number_realpart(s, r, sign_seen)
    ELSE IF mark = "@" THEN read_number_polar(s, realpart, r)
    ELSE read_number_rectangular(s, realpart, r)

read_number_part(s, p, ctx, sign_seen, realpart, mark) ==
    read_number_after(s, sign_seen, realpart, mark, read_real(s, p, ctx))

\* read_number after its prefix loop; pf is what the loop left.
read_number_complex(s, pf) ==
    IF pf.fail \/ pf.len <= 0 THEN SCM_FALSE
    ELSE IF CharAt(s, pf.p) \in {"+", "-"} /\ pf.len = 1 THEN SCM_FALSE
    ELSE IF /\ CharAt(s, pf.p) \in {"+", "-"}
            /\ pf.len = 2
            /\ CharAt(s, pf.p + 1) \in {"i", "I"}
    THEN CHK_EXACT_COMPLEX(pf.ctx,
                           Scm_MakeComplex(FloZero(FALSE),
                                           FloOne(CharAt(s, pf.p) = "-")))
    ELSE read_number_part(s, pf.p, pf.ctx, CharAt(s, pf.p) \in {"+", "-"},
                          NoValue, "NUL")

read_number(s, radix, strict) ==
    IF radix <= 1 \/ radix > 36 THEN SCM_FALSE
    ELSE read_number_complex(s, read_number_prefix(s, 1, Len(s),
                                                   NumreadPacket(radix, strict),
                                                   FALSE, FALSE))

\* The strings of the model are sequences of one-byte characters, so size
\* and length agree for all of them.
Scm_StringToNumber(str, radix, strict) == read_number(str, radix, strict)

(***************************************************************************)
(* Conversion to a C long.  A call hands back the returned word and what   *)
(* it did to *oor: "untouched", or the value it stored.  clamp is the set  *)
(* of the SCM_CLAMP_ flags given; oorp says whether oor is a pointer.      *)
(***************************************************************************)
SCM_CLAMP_NONE == {}
SCM_CLAMP_HI == {"hi"}
SCM_CLAMP_LO == {"lo"}
SCM_CLAMP_BOTH == {"hi", "lo"}
ULONG_MAX == Pow2(WordBits) - 1

CLong(v, flag) == [tag |-> "long", v |-> v, oor |-> flag]
\* The first statement of both routines.
OorCleared(clamp, oorp) ==
    IF clamp = SCM_CLAMP_NONE /\ oorp THEN "FALSE" ELSE "untouched"
\* The err: label of both routines.
ClampErr(clamp, oorp) ==
    IF clamp = SCM_CLAMP_NONE /\ oorp THEN CLong(0, "TRUE")
    ELSE Err("argument out of range")

\* Scm_BignumToSI and Scm_BignumToUI with all their arguments: a value
\* outside lo .. hi is clamped, flagged or refused as the flags say.
BignumToLong(a, clamp, oorp, lo, hi) ==
    IF a.v > hi
    THEN (IF "hi" \in clamp THEN CLong(hi, OorCleared(clamp, oorp))
          ELSE ClampErr(clamp, oorp))
    ELSE IF a.v < lo
    THEN (IF "lo" \in clamp THEN CLong(lo, OorCleared(clamp, oorp))
          ELSE ClampErr(clamp, oorp))
    ELSE CLong(a.v, OorCleared(clamp, oorp))
Scm_BignumToSI_Clamp(a, clamp, oorp) ==
    BignumToLong(a, clamp, oorp, LONG_MIN, LONG_MAX)
Scm_BignumToUI(a, clamp, oorp) == BignumToLong(a, clamp, oorp, 0, ULONG_MAX)

\* (long)v and (u_long)v: the value truncated toward zero when that is in
\* lo .. hi; the conversion of any other double is undefined, and wild is
\* the word the build delivers for it.
DoubleToLong(v, lo, hi, wild) ==
    IF v.c = "fin" /\ CDiv(FNum(v), v.d) >= lo /\ CDiv(FNum(v), v.d) <= hi
    THEN CDiv(FNum(v), v.d)
    ELSE wild

\* The flonum: label of Scm_GetIntegerClamp.
GetIntegerClamp_flonum(v, clamp, oorp, wild) ==
    IF FLess(IntToDouble(LONG_MAX), v)
    THEN (IF "hi" \in clamp THEN CLong(LONG_MAX, OorCleared(clamp, oorp))
          ELSE ClampErr(clamp, oorp))
    ELSE IF FLess(v, IntToDouble(LONG_MIN))
    THEN (IF "lo" \in clamp THEN CLong(LONG_MIN, OorCleared(clamp, oorp))
          ELSE ClampErr(clamp, oorp))
    ELSE CLong(DoubleToLong(v, LONG_MIN, LONG_MAX, wild),
               OorCleared(clamp, oorp))

Scm_GetIntegerClamp(obj, clamp, oorp, wild) ==
    IF SCM_INTP(obj) THEN CLong(SCM_INT_VALUE(obj), OorCleared(clamp, oorp))
    ELSE IF SCM_BIGNUMP(obj) THEN Scm_BignumToSI_Clamp(obj, clamp, oorp)
    ELSE IF SCM_FLONUMP(obj) \/ SCM_RATNUMP(obj)
    THEN GetIntegerClamp_flonum(Scm_GetDouble(obj), clamp, oorp, wild)
    ELSE ClampErr(clamp, oorp)

\* The flonum: label of Scm_GetIntegerUClamp.
GetIntegerUClamp_flonum(v, clamp, oorp, wild) ==
    IF FLess(IntToDouble(ULONG_MAX), v)
    THEN (IF "hi" \in clamp THEN CLong(ULONG_MAX, OorCleared(clamp, oorp))
          ELSE ClampErr(clamp, oorp))
    ELSE IF FLess(v, FloZero(FALSE))
    THEN (IF "lo" \in clamp THEN CLong(0, OorCleared(clamp, oorp))
          ELSE ClampErr(clamp, oorp))
    ELSE CLong(DoubleToLong(v, 0, ULONG_MAX, wild), OorCleared(clamp, oorp))

Scm_GetIntegerUClamp(obj, clamp, oorp, wild) ==
    IF SCM_INTP(obj)
    THEN (IF SCM_INT_VALUE(obj) < 0
          THEN (IF "lo" \in clamp THEN CLong(0, OorCleared(clamp, oorp))
                ELSE ClampErr(clamp, oorp))
          ELSE CLong(SCM_INT_VALUE(obj), OorCleared(clamp, oorp)))
    ELSE IF SCM_BIGNUMP(obj) THEN Scm_BignumToUI(obj, clamp, oorp)
    ELSE IF SCM_FLONUMP(obj) \/ SCM_RATNUMP(obj)
    THEN GetIntegerUClamp_flonum(Scm_GetDouble(obj), clamp, oorp, wild)
    ELSE ClampErr(clamp, oorp)

(***************************************************************************)
(* Number printer.  r, s, m+ and m- of double_print are exact integers     *)
(* throughout; as in algorithmR they are kept as unbounded integers, on    *)
(* which Scm_Mul, Scm_Ash, Scm_Quotient, Scm_NumCmp and numcmp3 are exact. *)
(* A buffer is the sequence of the characters stored so far.               *)
(***************************************************************************)
FLT_BUF == 50

\* '0' + n; the character after '9' is ':'.
DigitChar(n) == <<"0", "1", "2", "3", "4", "5", "6", "7", "8", "9", ":">>[n + 1]

\* sprintf(buf, "%d", n).
RECURSIVE UDecimal(_)
UDecimal(n) ==
    IF n < 10 THEN <<DigitChar(n)>>
    ELSE Append(UDecimal(n \div 10), DigitChar(n % 10))
Decimal(n) == IF n < 0 THEN <<"-">> \o UDecimal(-n) ELSE UDecimal(n)

\* val <= 10^(e + 0.1) for val > 0.  10^0.1 is 1.2589254...; no double of
\* MantBits bits in the range of Pow10 lies between 1.2589 and 1.259
\* times a power of ten, so the bracket 1259/1000 decides as log10 does.
Log10Below(val, e) ==
    IF e >= 0 THEN val.n * 1000 <= val.d * Pow10(e) * 1259
    ELSE val.n * Pow10(-e) * 1000 <= val.d * 1259

\* (int)ceil(log10(val) - 0.1) for a finite val > 0.
RECURSIVE Log10Ceil(_, _)
Log10Ceil(val, e) ==
    IF ~Log10Below(val, e) THEN Log10Ceil(val, e + 1)
    ELSE IF Log10Below(val, e - 1) THEN Log10Ceil(val, e - 1)
    ELSE e
double_print_est(val) == Log10Ceil(val, 0)

\* r, s, m- and the flag mp2 as initialized from f and exp.
double_print_init(f, exp) ==
    IF exp >= 0
    THEN (IF f # SCM_2_52
          THEN [r |-> f * Pow2(exp + 1), s |-> 2, mp2 |-> FALSE, mm |-> Pow2(exp)]
          ELSE [r |-> f * Pow2(exp + 2), s |-> 4, mp2 |-> TRUE, mm |-> Pow2(exp)])
    ELSE (IF exp = -1023 \/ f # SCM_2_52
          THEN [r |-> f * 2, s |-> Pow2(-exp + 1), mp2 |-> FALSE, mm |-> 1]
          ELSE [r |-> f * 4, s |-> Pow2(-exp + 2), mp2 |-> TRUE, mm |-> 1])

\* "estimate scale": the arguments of iexpt10 are est and -est.
double_print_scale(st, est) ==
    IF est >= 0
    THEN [st EXCEPT !.s = st.s * iexpt10(est).v] @@ [est |-> est]
    ELSE [st EXCEPT !.r = st.r * iexpt10(-est).v,
                    !.mm = st.mm * iexpt10(-est).v] @@ [est |-> est]

double_print_mp(mp2, mm) == IF mp2 THEN 2 * mm ELSE mm

\* "fixup".
double_print_fixup(st, round) ==
    LET fixup == IF st.r >= st.s THEN TRUE
                 ELSE IF round
                      THEN st.r + double_print_mp(st.mp2, st.mm) >= st.s
                      ELSE st.r + double_print_mp(st.mp2, st.mm) > st.s
    IN  IF fixup THEN [st EXCEPT !.s = st.s * 10, !.est = st.est + 1] ELSE st

\* "determine position of decimal point": [point, est].
double_print_point(est) ==
    IF est < 10 /\ est > -3 THEN [point |-> est, est |-> 1]
    ELSE [point |-> 1, est |-> est]

\* The zeros in front of the digits: [buf, buflen].
RECURSIVE double_print_zeros(_, _, _)
double_print_zeros(buf, buflen, digs) ==
    IF digs < 0 /\ buflen > 5
    THEN double_print_zeros(Append(buf, "0"), buflen - 1, digs + 1)
    ELSE [buf |-> buf, buflen |-> buflen]
double_print_lead(buf, buflen, point) ==
    IF point <= 0
    THEN double_print_zeros(buf \o <<"0", ".">>, buflen - 2, point)
    ELSE [buf |-> buf, buflen |-> buflen]

\* The "generate" loop: [buf, buflen, digs] as the loop leaves them.
RECURSIVE double_print_generate(_, _, _, _, _, _, _, _, _)
double_print_generate(buf, buflen, digs, r, s, mm, mp2, round, point) ==
    IF buflen <= 5 THEN [buf |-> buf, buflen |-> buflen, digs |-> digs]
    ELSE LET r10 == r * 10
             q == r10 \div s
             r1 == r10 % s
             mm1 == mm * 10
             mp == double_print_mp(mp2, mm1)
             tc1 == IF round THEN r1 <= mm1 ELSE r1 < mm1
             tc2 == IF round THEN r1 + mp >= s ELSE r1 + mp > s
             tc3 == IF 2 * r1 < s THEN -1 ELSE IF 2 * r1 = s THEN 0 ELSE 1
             break(d) == [buf |-> Append(buf, DigitChar(d)),
                          buflen |-> buflen, digs |-> digs]
         IN  IF ~tc1
             THEN (IF ~tc2
                   THEN (IF digs = point
                         THEN double_print_generate(
                                  buf \o <<DigitChar(q), ".">>, buflen - 1,
                                  digs + 1, r1, s, mm1, mp2, round, point)
                         ELSE double_print_generate(
                                  Append(buf, DigitChar(q)), buflen,
                                  digs + 1, r1, s, mm1, mp2, round, point))
                   ELSE break(q + 1))
             ELSE (IF ~tc2 THEN break(q)
                   ELSE IF (round /\ tc3 <= 0) \/ (~round /\ tc3 < 0)
                   THEN break(q)
                   ELSE break(q + 1))

\* The zeros and the ".0" behind digits that end left of the point.
RECURSIVE double_print_pad(_, _, _, _)
double_print_pad(buf, buflen, digs, point) ==
    IF digs < point /\ buflen > 5
    THEN double_print_pad(Append(buf, "0"), buflen - 1, digs + 1, point)
    ELSE buf \o <<".", "0">>
double_print_tail(g, point) ==
    IF g.digs <= point THEN double_print_pad(g.buf, g.buflen, g.digs, point)
    ELSE g.buf

\* "prints exponent.  we shifted decimal point, so -1."
double_print_exponent(buf, est) ==
    IF est - 1 # 0 THEN buf \o <<"e">> \o Decimal(est - 1) ELSE buf

double_print_digits(lead, st, round, pt) ==
    double_print_exponent(
        double_print_tail(
            double_print_generate(lead.buf, lead.buflen, 1, st.r, st.s, st.mm,
                                  st.mp2, round, pt.point),
            pt.point),
        pt.est)

double_print_scaled(buf, buflen, st, round) ==
    double_print_digits(
        double_print_lead(buf, buflen, double_print_point(st.est).point),
        st, round, double_print_point(st.est))

\* The part of double_print behind the sign; dec is Scm_DecodeFlonum(val).
double_print_finite(buf, buflen, val, dec) ==
    double_print_scaled(
        buf, buflen,
        double_print_fixup(
            double_print_scale(double_print_init(dec.m, dec.k),
                               double_print_est(val)),
            dec.m % 2 = 0),
        dec.m % 2 = 0)

double_print(buflen, val, plus_sign) ==
    IF FEqual(val, FloZero(FALSE))
    THEN (IF plus_sign THEN <<"+", "0", ".", "0">> ELSE <<"0", ".", "0">>)
    ELSE IF FIsInf(val)
    THEN (IF FLess(val, FloZero(FALSE)) THEN <<"#", "i", "-", "1", "/", "0">>
          ELSE IF plus_sign THEN <<"#", "i", "+", "1", "/", "0">>
          ELSE <<"#", "i", "1", "/", "0">>)
    ELSE IF FIsNaN(val) THEN <<"#", "<", "n", "a", "n", ">">>
    ELSE IF FLess(val, FloZero(FALSE))
    THEN double_print_finite(<<"-">>, buflen - 1, FNeg(val),
                             Scm_DecodeFlonum(FNeg(val)))
    ELSE IF plus_sign
    THEN double_print_finite(<<"+">>, buflen - 1, val, Scm_DecodeFlonum(val))
    ELSE double_print_finite(<<>>, buflen, val, Scm_DecodeFlonum(val))

\* Scm_NumberToString of a flonum and of a compnum; radix and use_upper
\* play no part in either branch.
Scm_NumberToString(obj) ==
    IF SCM_FLONUMP(obj) THEN double_print(FLT_BUF, obj, FALSE)
    ELSE IF SCM_COMPNUMP(obj)
    THEN double_print(FLT_BUF, obj.re, FALSE)
         \o double_print(FLT_BUF, obj.im, TRUE) \o <<"i">>
    ELSE Err("number required")

(***************************************************************************)
(* The state machine: one call of an exported routine per step.  op names  *)
(* the routine, x and y are its arguments, res is what it returned (or the *)
(* error it left through), rem is what Scm_Quotient stored through its rem *)
(* pointer.  An argument is drawn from Operands or is the number the       *)
(* previous call returned, so runs are arbitrary sequences of operations.  *)
(***************************************************************************)
\* Small operands are -MaxSmall .. MaxSmall.
MaxSmall == 3
\* Largest magnitude of a result that is fed back as an argument (the
\* word-boundary integers of IntOperands are fed back whatever their size).
MaxChain == 8

Obj(i) == Scm_NormalizeBignum(i)
Rat(n, d) == [tag |-> "rat", n |-> Obj(n), d |-> Obj(d)]

IntValues ==
    (-MaxSmall .. MaxSmall) \cup
    { 7, -7, SCM_SMALL_INT_MAX, SCM_SMALL_INT_MIN,
      SCM_SMALL_INT_MAX + 1, SCM_SMALL_INT_MIN - 1, 3 * (SCM_SMALL_INT_MAX + 1),
      LONG_MIN, 2 * (LONG_MAX + 1), 3 * (LONG_MAX + 1), -2 * (LONG_MAX + 1) }
IntOperands == { Obj(i) : i \in IntValues }

\* Ratnums in normal form, as every ratnum a caller holds is.
RatOperands ==
    { Rat(1, 2), Rat(-1, 2), Rat(1, 3), Rat(-1, 3), Rat(-2, 3), Rat(7, 2),
      Rat(1, SCM_SMALL_INT_MAX + 1), Rat(SCM_SMALL_INT_MIN - 1, 2),
      Rat(2 * SCM_SMALL_INT_MAX + 1, 2), Rat(SCM_SMALL_INT_MIN, SCM_SMALL_INT_MAX + 2) }

FloOperands ==
    { FloZero(FALSE), FloZero(TRUE), IntToDouble(1), IntToDouble(2),
      IntToDouble(-7), RoundDouble(FALSE, 1, 2), FloInf(FALSE), FloInf(TRUE),
      FloNaN }

Operands == IntOperands \cup RatOperands \cup FloOperands

IsNumber(o) == o.tag \in {"int", "big", "rat", "flo"}
Magnitude(o) ==
    IF SCM_INTEGERP(o) THEN IAbs(o.v)
    ELSE IF SCM_RATNUMP(o) THEN
        (IF IAbs(o.n.v) > o.d.v THEN IAbs(o.n.v) ELSE IAbs(o.d.v))
    ELSE o.n + o.d
Feedback ==
    /\ IsNumber(res) /\ SCM_EXACTP(res)
    /\ (Magnitude(res) <= MaxChain \/ res \in IntOperands)

\* The argument pairs of the next call: the drawn pair first, afterwards
\* the previous result combined with a previous argument.
ArgPairs ==
    IF op = "init" THEN {<<x, y>>}
    ELSE IF ~Feedback THEN {}
    ELSE {<<res, b>> : b \in {y} \cap Operands}
         \cup {<<a, res>> : a \in {x} \cap Operands}
ArgOnes == IF op = "init" THEN {x} ELSE IF Feedback THEN {res} ELSE {}

\* What the machine division inside the big-integer library can do with a
\* zero divisor: trap (the process dies) or deliver some word.
DivZeroOutcomes == { Trap, SCM_MAKE_INT(0), SCM_MAKE_INT(-1) }

Call(name, a, b, r, m) ==
    /\ op' = name
    /\ x' = a
    /\ y' = b
    /\ res' = r
    /\ rem' = m

Init ==
    /\ op = "init"
    /\ x \in Operands
    /\ y \in Operands
    /\ res = NoValue
    /\ rem = NoValue

DoAdd == \E p \in ArgPairs : Call("add", p[1], p[2], Scm_Add(p[1], p[2]), NoValue)
DoSub == \E p \in ArgPairs : Call("sub", p[1], p[2], Scm_Sub(p[1], p[2]), NoValue)
DoMul == \E p \in ArgPairs : Call("mul", p[1], p[2], Scm_Mul(p[1], p[2]), NoValue)
DoDiv == \E p \in ArgPairs : Call("div", p[1], p[2], Scm_Div(p[1], p[2]), NoValue)
DoDivInexact ==
    \E p \in ArgPairs :
        Call("div_inexact", p[1], p[2], Scm_DivInexact(p[1], p[2]), NoValue)
DoQuotient ==
    \E p \in ArgPairs, u \in DivZeroOutcomes :
        LET qr == Scm_Quotient(p[1], p[2],
                               [q |-> u, r |-> IF u = Trap THEN NoValue ELSE u])
        IN  Call("quotient", p[1], p[2], qr.q, qr.r)
DoRemainder ==
    \E p \in ArgPairs, u \in DivZeroOutcomes :
        Call("remainder", p[1], p[2], Scm_Modulo(p[1], p[2], TRUE, u), NoValue)
DoModulo ==
    \E p \in ArgPairs, u \in DivZeroOutcomes :
        Call("modulo", p[1], p[2], Scm_Modulo(p[1], p[2], FALSE, u), NoValue)
DoGcd == \E p \in ArgPairs : Call("gcd", p[1], p[2], Scm_Gcd(p[1], p[2]), NoValue)
\* Scm_MakeBignumFromDouble is only modelled for finite doubles.
DoNumCmp ==
    \E p \in ArgPairs :
        /\ ~(SCM_FLONUMP(p[1]) /\ p[1].c # "fin" /\ SCM_BIGNUMP(p[2]))
        /\ ~(SCM_FLONUMP(p[2]) /\ p[2].c # "fin" /\ SCM_BIGNUMP(p[1]))
        /\ Call("compare", p[1], p[2],
                [tag |-> "order", v |-> Scm_NumCmp(p[1], p[2])], NoValue)
DoNegate == \E a \in ArgOnes : Call("negate", a, NoValue, Scm_Negate(a), NoValue)
DoAbs == \E a \in ArgOnes : Call("abs", a, NoValue, Scm_Abs(a), NoValue)
DoReciprocal ==
    \E a \in ArgOnes : Call("reciprocal", a, NoValue, Scm_Reciprocal(a), NoValue)
DoMakeRational ==
    \E p \in ArgPairs :
        /\ SCM_INTEGERP(p[1]) /\ SCM_INTEGERP(p[2])
        /\ Call("make_rational", p[1], p[2], Scm_MakeRational(p[1], p[2]), NoValue)
\* Scm_ReduceRational takes the raw pair Scm_MakeRatnum built.
DoReduceRational ==
    \E p \in ArgPairs :
        /\ SCM_INTEGERP(p[1]) /\ SCM_INTEGERP(p[2])
        /\ Call("reduce_rational", Scm_MakeRatnum(p[1], p[2]), NoValue,
                Scm_ReduceRational(Scm_MakeRatnum(p[1], p[2])), NoValue)

\* The rounding mode and the shift count travel in y.
Mode(m) == [tag |-> "mode", mode |-> m]
DoRound ==
    \E a \in ArgOnes, m \in RoundModes :
        Call("round", a, Mode(m), Scm_Round(a, m), NoValue)

\* Shift counts on both sides of the word size and of the fixnum size.
ShiftCounts ==
    { -(WordBits + 1), -WordBits, -(WordBits - 1), -SCM_SMALL_INT_SIZE, -2, -1,
      0, 1, 2, SCM_SMALL_INT_SIZE - 1, SCM_SMALL_INT_SIZE, WordBits - 2, WordBits }
Count(c) == [tag |-> "count", cnt |-> c]
DoAsh ==
    \E a \in ArgOnes, c \in ShiftCounts :
        Call("ash", a, Count(c), Scm_Ash(a, c), NoValue)

\* What a big-integer routine can do with the words of a ratnum: crash, or
\* deliver an integer.
WildOutcomes == { Trap, SCM_MAKE_INT(0), SCM_MAKE_INT(-1), SCM_MAKE_INT(1) }
DoLogNot ==
    \E a \in ArgOnes, w \in WildOutcomes :
        Call("lognot", a, NoValue, Scm_LogNot(a, w), NoValue)
DoLogAnd ==
    \E p \in ArgPairs, w \in WildOutcomes :
        Call("logand", p[1], p[2], Scm_LogAnd(p[1], p[2], w), NoValue)
DoLogIor ==
    \E p \in ArgPairs, w \in WildOutcomes :
        Call("logior", p[1], p[2], Scm_LogIor(p[1], p[2], w), NoValue)
DoLogXor ==
    \E p \in ArgPairs, w \in WildOutcomes :
        Call("logxor", p[1], p[2], Scm_LogXor(p[1], p[2], w), NoValue)

Next ==
    \/ DoAdd
    \/ DoSub
    \/ DoMul
    \/ DoDiv
    \/ DoDivInexact
    \/ DoQuotient
    \/ DoRemainder
    \/ DoModulo
    \/ DoGcd
    \/ DoNumCmp
    \/ DoNegate
    \/ DoAbs
    \/ DoReciprocal
    \/ DoMakeRational
    \/ DoReduceRational
    \/ DoRound
    \/ DoAsh
    \/ DoLogNot
    \/ DoLogAnd
    \/ DoLogIor
    \/ DoLogXor

Spec == Init /\ [][Next]_vars

(***************************************************************************)
(* The same machine started from every pair of fixnums and restricted to   *)
(* addition, subtraction and multiplication.                               *)
(***************************************************************************)
Fixnums == { SCM_MAKE_INT(i) : i \in SCM_SMALL_INT_MIN .. SCM_SMALL_INT_MAX }

InitFixnum ==
    /\ op = "init"
    /\ x \in Fixnums
    /\ y \in Fixnums
    /\ res = NoValue
    /\ rem = NoValue

NextFixnum == DoAdd \/ DoSub \/ DoMul

SpecFixnum == InitFixnum /\ [][NextFixnum]_vars

(***************************************************************************)
(* The reader as a state machine of its own: one call of                   *)
(* Scm_StringToNumber on the string x with the radix and the strict flag   *)
(* in y.  The function keeps no state between calls.                       *)
(***************************************************************************)
MaxLen == 3
Alphabet == {"0", "1", "2", "#", "/", ".", "e", "+", "-", "i", "@"}
Bodies == UNION {[1 .. n -> Alphabet] : n \in 0 .. MaxLen}
\* Literals longer than MaxLen: padding followed by a second part, and
\* exponents around MAX_EXPONENT and DBL_MAX_10_EXP.
LongBodies ==
    { <<"1", "#", "/", "2">>, <<"1", "#", "+", "2", "i">>,
      <<"1", "#", "@", "2">>, <<"1", "#", ".", "e", "1">>,
      <<"1", "/", "2", "#">>, <<"1", "+", "2", "#", "i">>,
      <<"1", "/", "0", "+", "i">>, <<"1", "+", "1", "/", "0", "i">>,
      <<"1", "e", "3", "2", "3">>, <<"1", "e", "3", "2", "4">>,
      <<"1", "e", "3", "2", "5">>, <<"1", "e", "-", "3", "2", "3">>,
      <<"1", "e", "-", "3", "2", "4">>, <<"-", "1", "e", "-", "3", "2", "5">>,
      <<"-", "1", "e", "4", "0", "0">>, <<"-", "1", "e", "3", "2", "4">>,
      <<"0", "e", "3", "2", "4">>, <<".", "1", "e", "3", "2", "4">>,
      <<"1", ".", "5", "e", "3", "2", "3">>, <<"1", "e", "3", "0", "8">>,
      <<"1", "e", "3", "1", "0">>, <<"-", "2", "e", "3", "0", "9">>,
      <<"1", "e", "+", "3", "2", "4">>, <<"1", "e", "0", "3", "2", "4">>,
      <<"1", "e", "3", "2", "4", "0">>, <<"1", "e", "9", "9", "9">> }
Prefixes == { <<>>, <<"#", "e">>, <<"#", "i">>, <<"#", "x">> }
NumberStrings == {p \o b : p \in Prefixes, b \in Bodies \cup LongBodies}

ReadArgs(radix, strict) == [tag |-> "read", radix |-> radix, strict |-> strict]

InitRead ==
    /\ op = "init"
    /\ x \in NumberStrings
    /\ y \in {ReadArgs(10, strict) : strict \in BOOLEAN}
    /\ res = NoValue
    /\ rem = NoValue

DoStringToNumber ==
    /\ op = "init"
    /\ op' = "string_to_number"
    /\ res' = Scm_StringToNumber(x, y.radix, y.strict)
    /\ UNCHANGED <<x, y, rem>>

NextRead == DoStringToNumber

SpecRead == InitRead /\ [][NextRead]_vars

(***************************************************************************)
(* The printer and the reader together: Scm_NumberToString on the number   *)
(* x, then Scm_StringToNumber on the string it returned.  After the first  *)
(* step x is that string and rem keeps the number that was printed.        *)
(***************************************************************************)
\* Binary exponents of the printed doubles are -MaxBinExp .. MaxBinExp - 3.
MaxBinExp == 14
FiniteFlonums ==
    { FNegWhen(neg, ldexp(m, k)) :
          neg \in BOOLEAN, m \in SCM_2_52 .. SCM_2_53 - 1,
          k \in -MaxBinExp .. MaxBinExp - 3 }
SpecialFlonums ==
    { FloZero(FALSE), FloZero(TRUE), FloInf(FALSE), FloInf(TRUE), FloNaN }
Compnums ==
    { Scm_MakeCompnum(r, i) : r \in {IntToDouble(1), FloZero(TRUE)},
                              i \in {IntToDouble(2), RoundDouble(TRUE, 1, 2)} }
PrintOperands == FiniteFlonums \cup SpecialFlonums \cup Compnums

InitPrint ==
    /\ op = "number"
    /\ x \in PrintOperands
    /\ y = NoValue
    /\ res = NoValue
    /\ rem = NoValue

DoNumberToString ==
    /\ op = "number"
    /\ op' = "init"
    /\ x' = Scm_NumberToString(x)
    /\ y' = ReadArgs(10, FALSE)
    /\ rem' = x
    /\ UNCHANGED res

NextPrint == DoNumberToString \/ DoStringToNumber

SpecPrint == InitPrint /\ [][NextPrint]_vars

(***************************************************************************)
(* Scm_Expt as a state machine of its own: one call on the base x and the  *)
(* exponent y.                                                             *)
(***************************************************************************)
\* Fixnum exponents are -MaxExpt .. MaxExpt.
MaxExpt == 6
ExptBases ==
    { Obj(i) : i \in (-MaxSmall .. MaxSmall) \cup {7, 10, -10} }
    \cup { Rat(1, 2), Rat(-1, 2), Rat(-2, 3), Rat(7, 2), IntToDouble(2) }
ExptExponents ==
    { Obj(i) : i \in (-MaxExpt .. MaxExpt)
                     \cup { SCM_SMALL_INT_MAX + 1, SCM_SMALL_INT_MAX + 2,
                            SCM_SMALL_INT_MIN - 1, SCM_SMALL_INT_MIN - 2 } }
    \cup { Rat(1, 2) }

InitExpt ==
    /\ op = "init"
    /\ x \in ExptBases
    /\ y \in ExptExponents
    /\ res = NoValue
    /\ rem = NoValue

DoExpt ==
    /\ op = "init"
    /\ op' = "expt"
    /\ res' = Scm_Expt(x, y)
    /\ UNCHANGED <<x, y, rem>>

NextExpt == DoExpt

SpecExpt == InitExpt /\ [][NextExpt]_vars

(***************************************************************************)
(* The conversions to a C long as a state machine: one call of             *)
(* Scm_GetIntegerClamp or Scm_GetIntegerUClamp on the number x with the    *)
(* clamp flags and the oor argument in y.                                  *)
(***************************************************************************)
ClampIntegers ==
    (-MaxSmall .. MaxSmall) \cup
    { SCM_SMALL_INT_MAX, SCM_SMALL_INT_MIN, SCM_SMALL_INT_MAX + 1,
      SCM_SMALL_INT_MIN - 1, LONG_MAX, LONG_MAX + 1, LONG_MIN, LONG_MIN - 1,
      ULONG_MAX, ULONG_MAX + 1, 2 * ULONG_MAX }
\* The doubles nearest to the integers above, and the values that are not
\* integers.
ClampOperands ==
    { Obj(i) : i \in ClampIntegers }
    \cup { IntToDouble(i) : i \in ClampIntegers }
    \cup { FloZero(TRUE), RoundDouble(TRUE, 1, 2), RoundDouble(FALSE, 3, 2),
           FloInf(FALSE), FloInf(TRUE), FloNaN, Rat(7, 2), Rat(-1, 2) }
ClampArgs(clamp, oorp) == [tag |-> "clamp", clamp |-> clamp, oorp |-> oorp]
\* What the conversion of an unrepresentable double can deliver.
WildLongs == { LONG_MIN, 0, LONG_MAX }
WildULongs == { 0, LONG_MAX + 1, ULONG_MAX }

InitClamp ==
    /\ op = "init"
    /\ x \in ClampOperands
    /\ y \in { ClampArgs(c, p) : c \in SUBSET {"hi", "lo"}, p \in BOOLEAN }
    /\ res = NoValue
    /\ rem = NoValue

DoGetIntegerClamp ==
    /\ op = "init"
    /\ op' = "get_integer"
    /\ \E wild \in WildLongs :
           res' = Scm_GetIntegerClamp(x, y.clamp, y.oorp, wild)
    /\ UNCHANGED <<x, y, rem>>

DoGetIntegerUClamp ==
    /\ op = "init"
    /\ op' = "get_integer_u"
    /\ \E wild \in WildULongs :
           res' = Scm_GetIntegerUClamp(x, y.clamp, y.oorp, wild)
    /\ UNCHANGED <<x, y, rem>>

NextClamp == DoGetIntegerClamp \/ DoGetIntegerUClamp

SpecClamp == InitClamp /\ [][NextClamp]_vars

(***************************************************************************)
(* Lazy initialisation of the power-of-ten table by concurrent threads.    *)
(* IEXPT10_INIT tests iexpt10_initialized and calls iexpt10_init without a *)
(* lock or a barrier.  In this specification x is the table iexpt10_n in   *)
(* memory, y is iexpt10_initialized in memory, op maps each thread to its  *)
(* position, rem to its locals and its stores not yet visible to the other *)
(* threads, and res to the table entry it has read.  Unsynchronised stores *)
(* become visible to other threads in any order.                           *)
(***************************************************************************)
NThreads == 2
TableSiz == 3
NLiteral == 2
Threads == 1 .. NThreads
NULL == [tag |-> "null"]

\* The value thread t sees at table entry e: its own pending store, or memory.
LoadEntry(t, e) ==
    IF \E b \in rem[t].buf : b.loc = e
    THEN (CHOOSE b \in rem[t].buf : b.loc = e).val
    ELSE x[e]

\* The value thread t sees in iexpt10_initialized.
LoadInitialized(t) == rem[t].flag \/ y

InitThreads ==
    /\ x = [e \in 0 .. TableSiz - 1 |-> NULL]
    /\ y = FALSE
    /\ op = [t \in Threads |-> "idle"]
    /\ rem = [t \in Threads |-> [i |-> 0, e |-> 0, entered |-> FALSE,
                                 buf |-> {}, flag |-> FALSE]]
    /\ res = [t \in Threads |-> NoValue]

\* A first use by the printer, algorithmR or exact_expt: the caller is about
\* to run IEXPT10_INIT() and then read iexpt10_n[e].
ThreadCall(t) ==
    /\ op[t] = "idle"
    /\ \E e \in 0 .. TableSiz - 1 : rem' = [rem EXCEPT ![t].e = e]
    /\ op' = [op EXCEPT ![t] = "IEXPT10_INIT"]
    /\ UNCHANGED <<x, y, res>>

\* IEXPT10_INIT: if (!iexpt10_initialized) iexpt10_init();
ThreadTest(t) ==
    /\ op[t] = "IEXPT10_INIT"
    /\ IF LoadInitialized(t)
       THEN /\ op' = [op EXCEPT ![t] = "iexpt10"]
            /\ UNCHANGED rem
       ELSE /\ op' = [op EXCEPT ![t] = "iexpt10_init"]
            /\ rem' = [rem EXCEPT ![t].entered = TRUE, ![t].i = 0]
    /\ UNCHANGED <<x, y, res>>

\* iexpt10_init, one store: a literal for the first entries, then
\* iexpt10_n[i] = Scm_Mul(iexpt10_n[i-1], SCM_MAKE_INT(10)).
ThreadStore(t) ==
    /\ op[t] = "iexpt10_init"
    /\ rem[t].i < TableSiz
    /\ LET i == rem[t].i
           val == IF i < NLiteral THEN SCM_MAKE_INT(Pow10(i))
                  ELSE Scm_NormalizeBignum(LoadEntry(t, i - 1).v * 10)
       IN  rem' = [rem EXCEPT ![t].buf = @ \cup {[loc |-> i, val |-> val]},
                              ![t].i = i + 1]
    /\ UNCHANGED <<op, x, y, res>>

\* iexpt10_init, last statement: iexpt10_initialized = TRUE.
ThreadSetFlag(t) ==
    /\ op[t] = "iexpt10_init"
    /\ rem[t].i = TableSiz
    /\ rem' = [rem EXCEPT ![t].flag = TRUE]
    /\ op' = [op EXCEPT ![t] = "iexpt10"]
    /\ UNCHANGED <<x, y, res>>

\* The use itself: return iexpt10_n[e].
ThreadRead(t) ==
    /\ op[t] = "iexpt10"
    /\ res' = [res EXCEPT ![t] = LoadEntry(t, rem[t].e)]
    /\ op' = [op EXCEPT ![t] = "done"]
    /\ UNCHANGED <<x, y, rem>>

\* A pending store to the table reaches memory.
ThreadFlushEntry(t) ==
    /\ \E b \in rem[t].buf :
          /\ x' = [x EXCEPT ![b.loc] = b.val]
          /\ rem' = [rem EXCEPT ![t].buf = @ \ {b}]
    /\ UNCHANGED <<op, y, res>>

\* The pending store to iexpt10_initialized reaches memory.
ThreadFlushFlag(t) ==
    /\ rem[t].flag
    /\ y' = TRUE
    /\ rem' = [rem EXCEPT ![t].flag = FALSE]
    /\ UNCHANGED <<op, x, res>>

NextThreads ==
    \E t \in Threads :
        \/ ThreadCall(t)
        \/ ThreadTest(t)
        \/ ThreadStore(t)
        \/ ThreadSetFlag(t)
        \/ ThreadRead(t)
        \/ ThreadFlushEntry(t)
        \/ ThreadFlushFlag(t)

SpecThreads == InitThreads /\ [][NextThreads]_vars

(***************************************************************************)
(* The arguments of iexpt10 at the scale of an IEEE double.  A decimal     *)
(* literal is int ones, a point, zeros zeros, ones ones and a written      *)
(* exponent, so its digit string `fraction` lies in [10^q, 1.12 * 10^q)    *)
(* for q one less than its number of significant digits; a finite flonum   *)
(* is m * 10^q with 1 <= m < 10.  Only decimal exponents are computed.     *)
(***************************************************************************)
\* The range of a double, from the comment at MAX_EXPONENT: [-323..308].
DBL_DENORM_MIN_10_EXP == -323
\* The number of decimal digits of SCM_2_52 = 4503599627370496.
SCM_2_52_DIGITS == 16
\* MAX_EXACT_10_EXP of a 53-bit mantissa.
MAX_EXACT_10_EXP_DOUBLE == 23

Literal(int, zeros, ones, exponent) ==
    [tag |-> "literal", int |-> int, zeros |-> zeros, ones |-> ones,
     exponent |-> exponent]
FlonumMagnitude(q, high) == [tag |-> "magnitude", q |-> q, high |-> high]

\* fracdigs = lensave - *lenp: the digits read after the point.
fracdigs(lit) == lit.zeros + lit.ones
\* The number of significant digits of fraction (0 when fraction is 0).
FractionDigits(lit) ==
    IF lit.int > 0 THEN lit.int + lit.zeros + lit.ones ELSE lit.ones

\* raise_pow10(Scm_GetDouble(fraction), e) as a decimal exponent: "inf"
\* when fraction or the product is above the largest double, "zero" when
\* fraction is zero or the product is below the smallest denormal.
raise_pow10_range(digits, e) ==
    IF digits = 0 THEN "zero"
    ELSE IF digits - 1 > DBL_MAX_10_EXP THEN "inf"
    ELSE IF digits - 1 + e > DBL_MAX_10_EXP THEN "inf"
    ELSE IF digits - 1 + e < DBL_DENORM_MIN_10_EXP THEN "zero"
    ELSE "finite"

\* The arguments algorithmR passes to iexpt10: e or -e, at every retry.
algorithmR_iexpt10(e) == IF e >= 0 THEN {e} ELSE {-e}

\* The arguments of iexpt10 during read_real on the literal: none when the
\* exponent overflows, for an exact number (exact_expt tests the table size
\* itself) or without the call of algorithmR.
read_real_iexpt10(lit, exactness) ==
    IF IAbs(lit.exponent) >= MAX_EXPONENT THEN {}
    ELSE IF exactness = "EXACT" THEN {}
    ELSE IF /\ raise_pow10_range(FractionDigits(lit),
                                 lit.exponent - fracdigs(lit)) = "finite"
            /\ \/ FractionDigits(lit) > SCM_2_52_DIGITS
               \/ lit.exponent - fracdigs(lit) > MAX_EXACT_10_EXP_DOUBLE
               \/ lit.exponent - fracdigs(lit) < -MAX_EXACT_10_EXP_DOUBLE
    THEN algorithmR_iexpt10(lit.exponent - fracdigs(lit))
    ELSE {}

\* est = (int)ceil(log10(val) - 0.1) and the argument est or -est.
double_print_iexpt10(mag) ==
    IF mag.high THEN {IAbs(mag.q + 1)} ELSE {IAbs(mag.q)}

Literals ==
    { Literal(int, zeros, ones, exponent) :
        int \in {0, 1, 5}, zeros \in {0, 1, 20, 300, 324},
        ones \in {0, 1, 16, 17, 18, 42, 309, 310},
        exponent \in {-324, -323, -300, -1, 0, 1, 300, 308, 323, 324} }
\* m * 10^q with m above 10^0.1 (high) or not; the smallest denormal is
\* 4.94e-324 and the largest double 1.797e308.
FlonumMagnitudes ==
    { FlonumMagnitude(q, high) :
        q \in DBL_DENORM_MIN_10_EXP - 1 .. DBL_MAX_10_EXP, high \in BOOLEAN }
    \ { FlonumMagnitude(DBL_DENORM_MIN_10_EXP - 1, FALSE) }

InitIndex ==
    /\ op = "init"
    /\ x \in Literals \cup FlonumMagnitudes
    /\ y \in {"EXACT", "INEXACT", "NOEXACT"}
    /\ res = NoValue
    /\ rem = NoValue

DoReadReal ==
    /\ op = "init"
    /\ x.tag = "literal"
    /\ op' = "read_real"
    /\ res' = [tag |-> "iexpt10", args |-> read_real_iexpt10(x, y)]
    /\ UNCHANGED <<x, y, rem>>

DoDoublePrint ==
    /\ op = "init"
    /\ x.tag = "magnitude"
    /\ op' = "double_print"
    /\ res' = [tag |-> "iexpt10", args |-> double_print_iexpt10(x)]
    /\ UNCHANGED <<x, y, rem>>

NextIndex == DoReadReal \/ DoDoublePrint

SpecIndex == InitIndex /\ [][NextIndex]_vars

(***************************************************************************)
(* Properties.                                                             *)
(***************************************************************************)
ExactArgs == SCM_EXACTP(x) /\ (y = NoValue \/ SCM_EXACTP(y))
IntegerArgs == SCM_INTEGERP(x) /\ (y = NoValue \/ SCM_INTEGERP(y))

\* The four invariants of a ratnum in normal form.
RatnumNormal(o) ==
    /\ SCM_INTEGERP(o.n) /\ SCM_INTEGERP(o.d)
    /\ o.d.v > 0
    /\ IGcd(IAbs(o.n.v), o.d.v) = 1
    /\ o.d.v # 1
    /\ o.n.v # 0

\* C1: every ratnum returned by make_rational, reduce_rational, add, sub,
\* mul, div, negate, abs and reciprocal on exact rationals has a positive
\* denominator other than 1, a non-zero numerator and numerator and
\* denominator coprime (so an integral result is never a ratnum).
C1_RatnumInvariants ==
    ( /\ op \in {"make_rational", "reduce_rational", "add", "sub", "mul", "div",
                 "negate", "abs", "reciprocal"}
      /\ (op = "reduce_rational" \/ ExactArgs)
      /\ SCM_RATNUMP(res) )
    => RatnumNormal(res)

\* The unbounded-integer result of an integer operation on integers a, b.
MathInteger(name, a, b) ==
    CASE name = "add" -> a + b
      [] name = "sub" -> a - b
      [] name = "mul" -> a * b
      [] name = "negate" -> -a
      [] name = "abs" -> IAbs(a)
      [] name = "quotient" -> CDiv(a, b)
      [] name = "remainder" -> CRem(a, b)
      [] name = "modulo" -> IF b > 0 THEN a % b ELSE -((-a) % (-b))

IntegerOps == {"add", "sub", "mul", "negate", "abs", "quotient", "remainder", "modulo"}
DivisionOps == {"quotient", "remainder", "modulo"}

\* C2: an integer operation on exact integers returns a fixnum exactly when
\* the mathematical value is in [SCM_SMALL_INT_MIN, SCM_SMALL_INT_MAX] and a
\* bignum holding it otherwise.
C2_IntegerNormalized ==
    ( /\ op \in IntegerOps
      /\ IntegerArgs
      /\ (op \in DivisionOps => y.v # 0) )
    => res = Scm_NormalizeBignum(MathInteger(op, x.v, IF y = NoValue THEN 0 ELSE y.v))

\* C3: quotient of exact integers, divisor not 0, is x/y truncated toward
\* zero, and the remainder of the same call is x - y*quotient, smaller in
\* magnitude than y.
C3_QuotientTruncates ==
    (op = "quotient" /\ IntegerArgs /\ y.v # 0)
    => /\ SCM_INTEGERP(res) /\ SCM_INTEGERP(rem)
       /\ res.v = CDiv(x.v, y.v)
       /\ rem.v = x.v - y.v * res.v
       /\ IAbs(rem.v) < IAbs(y.v)

\* C4: for exact integers a and b > 0, mul(quotient(a, b), b) +
\* remainder(a, b) = a, the sign of remainder(a, b) is 0 or the sign of a,
\* and the sign of modulo(a, b) is 0 or the sign of b.
C4_DivisionIdentity ==
    (op \in DivisionOps /\ IntegerArgs /\ y.v > 0)
    => /\ op = "quotient"
          => Scm_Add(Scm_Mul(res, y), Scm_Modulo(x, y, TRUE, Trap)) = x
       /\ op = "remainder" => Scm_Sign(res) \in {0, Scm_Sign(x)}
       /\ op = "modulo" => Scm_Sign(res) \in {0, Scm_Sign(y)}

\* A negative bignum divided by a fixnum > 1 with a non-zero remainder.
C4_Witness ==
    /\ op = "quotient" /\ SCM_BIGNUMP(x) /\ x.v < 0
    /\ SCM_INTP(y) /\ y.v > 1
    /\ SCM_INTEGERP(res) /\ res.v < 0 /\ SCM_INTEGERP(rem) /\ rem.v < 0

IntegralFlonum(o) ==
    SCM_FLONUMP(o) /\ o.c = "fin" /\ FEqual(FFloor(o), o)
ZeroDivisor(o) ==
    SCM_EXACT_ZERO_P(o) \/ (SCM_FLONUMP(o) /\ FIsZero(o))

\* C5: quotient, remainder and modulo signal the division-by-zero error,
\* and return no value, whenever the divisor is exact 0 or 0.0 and the
\* dividend is a fixnum, a bignum or an integral flonum.
C5_DivisionByZeroSignalled ==
    ( /\ op \in DivisionOps
      /\ (SCM_INTEGERP(x) \/ IntegralFlonum(x))
      /\ ZeroDivisor(y) )
    => res = DIVBYZERO

\* C6: div and div_inexact of a real x by exact zero raise no error and
\* return +infinity when x > 0, -infinity when x < 0 and NaN when x is
\* exact zero.
C6_DivByExactZero ==
    (op \in {"div", "div_inexact"} /\ SCM_EXACT_ZERO_P(y))
    => /\ ~IsErr(res)
       /\ Scm_Sign(x) > 0 /\ ~(SCM_FLONUMP(x) /\ FIsNaN(x))
          => res = SCM_POSITIVE_INFINITY
       /\ Scm_Sign(x) < 0 /\ ~(SCM_FLONUMP(x) /\ FIsNaN(x))
          => res = SCM_NEGATIVE_INFINITY
       /\ SCM_EXACT_ZERO_P(x) => res = SCM_NAN

\* A negative ratnum divided by exact zero.
C6_Witness ==
    /\ op = "div" /\ SCM_RATNUMP(x) /\ x.n.v < 0
    /\ y = SCM_MAKE_INT(0) /\ res = SCM_NEGATIVE_INFINITY

\* C7 as stated: div of a non-zero exact integer by exact zero signals the
\* division-by-zero error, div(1.0, 0.0) is +infinity, div(0.0, 0.0) and
\* div(0, 0) are NaN.
C7_AsStated ==
    op = "div"
    => /\ (SCM_INTEGERP(x) /\ x.v # 0 /\ SCM_EXACT_ZERO_P(y)) => res = DIVBYZERO
       /\ (x = IntToDouble(1) /\ y = FloZero(FALSE)) => res = SCM_POSITIVE_INFINITY
       /\ (x = FloZero(FALSE) /\ y = FloZero(FALSE)) => res = SCM_NAN
       /\ (x = SCM_MAKE_INT(0) /\ y = SCM_MAKE_INT(0)) => res = SCM_NAN

\* C7: div of a non-zero exact integer by exact zero signals no error and
\* returns the infinity of the dividend's sign (div(1, 0) is +infinity);
\* div(1.0, 0.0) is +infinity, div(0.0, 0.0) and div(0, 0) are NaN.
C7_DivScenario ==
    op = "div"
    => /\ (SCM_INTEGERP(x) /\ x.v # 0 /\ SCM_EXACT_ZERO_P(y))
          => res = (IF x.v > 0 THEN SCM_POSITIVE_INFINITY
                    ELSE SCM_NEGATIVE_INFINITY)
       /\ (x = IntToDouble(1) /\ y = FloZero(FALSE)) => res = SCM_POSITIVE_INFINITY
       /\ (x = FloZero(FALSE) /\ y = FloZero(FALSE)) => res = SCM_NAN
       /\ (x = SCM_MAKE_INT(0) /\ y = SCM_MAKE_INT(0)) => res = SCM_NAN

\* div(1, 0).
C7_Witness ==
    /\ op = "div" /\ x = SCM_MAKE_INT(1) /\ y = SCM_MAKE_INT(0)
    /\ res = SCM_POSITIVE_INFINITY

\* What make_rational(n, d) is specified to return on integers n, d.
MathRational(n, d) ==
    IF d = 0
    THEN (IF n > 0 THEN SCM_POSITIVE_INFINITY
          ELSE IF n < 0 THEN SCM_NEGATIVE_INFINITY
          ELSE SCM_NAN)
    ELSE IF n = 0 THEN SCM_MAKE_INT(0)
    ELSE LET g == IGcd(IAbs(n), IAbs(d))
             nn == (ISign(d) * n) \div g
             dd == IAbs(d) \div g
         IN  IF dd = 1 THEN Obj(nn) ELSE Rat(nn, dd)

\* C8: make_rational(n, d) with d = 0 returns +infinity when n > 0,
\* -infinity when n < 0 and NaN when n = 0; with n = 0 and d # 0 it returns
\* fixnum 0; otherwise n/d reduced by gcd(|n|, |d|), sign in the numerator,
\* an integer when the reduced denominator is 1.
C8_MakeRationalCases ==
    op = "make_rational" => res = MathRational(x.v, y.v)

\* C9: gcd(x, y) of exact integers is the non-negative greatest common
\* divisor; gcd(0, y) = |y| and gcd(x, 0) = |x|.
C9_GcdNonNegative ==
    (op = "gcd" /\ IntegerArgs) => res = Obj(IGcd(IAbs(x.v), IAbs(y.v)))

\* C10: the three-way compare of two normalized ratnums n0/d0 and n1/d1 is
\* the sign of n0*d1 - n1*d0.
C10_RatnumCompare ==
    ( /\ op = "compare" /\ SCM_RATNUMP(x) /\ SCM_RATNUMP(y)
      /\ RatnumNormal(x) /\ RatnumNormal(y) )
    => res.v = ISign(x.n.v * y.d.v - y.n.v * x.d.v)

\* The sign of n/d - i for a ratnum r = n/d and an integer i (d > 0).
RatnumMinusInteger(r, i) == ISign(r.n.v - i.v * r.d.v)

\* C11: compare(n/d, i) of a normalized ratnum with an exact integer is the
\* sign of n - i*d, and compare(i, n/d) is its negation; in particular the
\* two never compare equal.
C11_RatnumIntegerCompare ==
    /\ (op = "compare" /\ SCM_RATNUMP(x) /\ RatnumNormal(x) /\ SCM_INTEGERP(y))
       => res.v = RatnumMinusInteger(x, y)
    /\ (op = "compare" /\ SCM_INTEGERP(x) /\ SCM_RATNUMP(y) /\ RatnumNormal(y))
       => res.v = -RatnumMinusInteger(y, x)

MixedExactness ==
    \/ SCM_EXACTP(x) /\ SCM_FLONUMP(y)
    \/ SCM_FLONUMP(x) /\ SCM_EXACTP(y)

\* The two exceptions of mul: exact zero gives fixnum 0, exact one gives
\* the other operand.
MulExactShortcut ==
    /\ op = "mul"
    /\ \/ (SCM_EXACT_ZERO_P(x) \/ SCM_EXACT_ZERO_P(y)) /\ res = SCM_MAKE_INT(0)
       \/ SCM_EXACT_ONE_P(x) /\ res = y
       \/ SCM_EXACT_ONE_P(y) /\ res = x

\* C12 as stated: add, sub, mul and div of one exact and one inexact
\* operand return an inexact number, except mul with an exact zero (fixnum
\* 0) or an exact one (the other operand).
C12_AsStated ==
    (op \in {"add", "sub", "mul", "div"} /\ MixedExactness)
    => (SCM_FLONUMP(res) \/ MulExactShortcut)

\* C13: for exact rationals a and b, b not zero, mul(div(a, b), b) is a.
C13_DivMulRoundTrip ==
    [][ ( /\ op = "div" /\ ExactArgs /\ ~SCM_EXACT_ZERO_P(y)
          /\ op' = "mul" /\ x' = res /\ y' = y )
        => res' = x ]_vars

\* The integer n/d is rounded to, d > 0, in each mode.
MathRound(mode, n, d) ==
    LET q == CDiv(n, d)
        r == CRem(n, d)
        away == q + ISign(n)
    IN  CASE mode = "SCM_ROUND_FLOOR" -> n \div d
          [] mode = "SCM_ROUND_CEIL" -> -((-n) \div d)
          [] mode = "SCM_ROUND_TRUNC" -> q
          [] mode = "SCM_ROUND_ROUND" ->
                IF 2 * IAbs(r) > d THEN away
                ELSE IF 2 * IAbs(r) = d THEN (IF q % 2 = 1 THEN away ELSE q)
                ELSE q

\* C14: round of a normalized ratnum n/d is floor(n/d), ceiling(n/d), n/d
\* truncated toward zero, or the nearest integer with ties (2*|r| = d) going
\* to the even neighbour, according to the mode; round of an integer is the
\* integer itself in every mode.
C14_RoundRational ==
    /\ (op = "round" /\ SCM_INTEGERP(x)) => res = x
    /\ (op = "round" /\ SCM_RATNUMP(x) /\ RatnumNormal(x))
       => res = Obj(MathRound(y.mode, x.n.v, x.d.v))

\* floor(a * 2^n).
MathAsh(a, n) == IF n >= 0 THEN a * Pow2(n) ELSE a \div Pow2(-n)

BitwiseOps == {"logand", "logior", "logxor", "lognot"}

\* C16: logand, logior, logxor and lognot raise the exact-integer-required
\* error whenever an operand is not an exact integer (a ratnum or a flonum).
C16_BitwiseRequireInteger ==
    ( /\ op \in BitwiseOps
      /\ (~SCM_INTEGERP(x) \/ (op # "lognot" /\ ~SCM_INTEGERP(y))) )
    => res = EXACTREQ

(***************************************************************************)
(* The reader.  The grammar of the number syntax, as a recognizer: each    *)
(* ...Ends(s, p) is the set of positions at which a phrase that starts at  *)
(* p can end (the position after its last character).                      *)
(***************************************************************************)
ReadCall == op = "string_to_number"
SCM_NUMBERP(o) == IsNumber(o) \/ SCM_COMPNUMP(o)

GrammarDigits(radix) == {DigitTab[i] : i \in 1 .. radix}
AllIn(s, a, b, chars) == \A i \in a .. b - 1 : s[i] \in chars
\* s[p .. q-1] is at least mindig digits followed by at least minpad '#'.
DigitsPad(s, p, q, radix, mindig, minpad) ==
    \E k \in p .. q :
        /\ k - p >= mindig
        /\ q - k >= minpad
        /\ AllIn(s, p, k, GrammarDigits(radix))
        /\ AllIn(s, k, q, {"#"})
Positions(s, p) == p .. Len(s) + 1
UintEnds(s, p, radix) == {q \in Positions(s, p) : DigitsPad(s, p, q, radix, 1, 0)}
SuffixEnds(s, p) ==
    IF CharAt(s, p) \in ExponentMarkers
    THEN LET d == IF CharAt(s, p + 1) \in {"+", "-"} THEN p + 2 ELSE p + 1
         IN  {q \in Positions(s, d) : q > d /\ AllIn(s, d, q, GrammarDigits(10))}
    ELSE {}
MantissaEnds(s, p, radix) ==
    UintEnds(s, p, radix)
    \cup {q \in Positions(s, p) :
            CharAt(s, p) = "." /\ DigitsPad(s, p + 1, q, radix, 1, 0)}
    \cup {q \in Positions(s, p) :
            \E k \in p + 1 .. q - 1 :
                /\ AllIn(s, p, k, GrammarDigits(radix))
                /\ s[k] = "."
                /\ DigitsPad(s, k + 1, q, radix, 0, 0)}
    \cup {q \in Positions(s, p) :
            \E k \in p + 2 .. q - 1 :
                /\ DigitsPad(s, p, k, radix, 1, 1)
                /\ s[k] = "."
                /\ AllIn(s, k + 1, q, {"#"})}
DecimalEnds(s, p, radix) ==
    LET m == MantissaEnds(s, p, radix)
    IN  m \cup UNION {SuffixEnds(s, q) : q \in m}
UrealEnds(s, p, radix) ==
    UintEnds(s, p, radix)
    \cup UNION {UintEnds(s, q + 1, radix) :
                  q \in {e \in UintEnds(s, p, radix) : CharAt(s, e) = "/"}}
    \cup DecimalEnds(s, p, radix)
RealEnds(s, p, radix) ==
    UrealEnds(s, p, radix)
    \cup (IF CharAt(s, p) \in {"+", "-"} THEN UrealEnds(s, p + 1, radix) ELSE {})
\* s from p to its end is a <complex>.
IsComplex(s, p, radix) ==
    LET end == Len(s) + 1
        reals == RealEnds(s, p, radix)
        imag(q) ==
            /\ CharAt(s, q) \in {"+", "-"}
            /\ \/ CharAt(s, q + 1) = "i" /\ q + 2 = end
               \/ \E r \in UrealEnds(s, q + 1, radix) :
                      CharAt(s, r) = "i" /\ r + 1 = end
    IN  \/ end \in reals
        \/ \E q \in reals : CharAt(s, q) = "@" /\ end \in RealEnds(s, q + 1, radix)
        \/ \E q \in reals : imag(q)
        \/ imag(p)

RadixMarks == {"x", "X", "o", "O", "b", "B", "d", "D"}
ExactnessMarks == {"e", "E", "i", "I"}
\* The prefix has a token with one of the marks.
PrefixHas(s, marks) ==
    /\ CharAt(s, 1) = "#"
    /\ \/ CharAt(s, 2) \in marks
       \/ CharAt(s, 3) = "#" /\ CharAt(s, 4) \in marks
PrefixRadix(s) ==
    LET c == IF CharAt(s, 2) \in RadixMarks THEN CharAt(s, 2) ELSE CharAt(s, 4)
    IN  IF ~PrefixHas(s, RadixMarks) THEN 10
        ELSE IF c \in {"x", "X"} THEN 16
        ELSE IF c \in {"o", "O"} THEN 8
        ELSE IF c \in {"b", "B"} THEN 2
        ELSE 10
\* s is a <number>: at most one radix and one exactness token, in either
\* order, then a <complex>.
Derivable(s) ==
    LET tok(p, marks) == CharAt(s, p) = "#" /\ CharAt(s, p + 1) \in marks
        one == tok(1, RadixMarks \cup ExactnessMarks)
        two == \/ tok(1, RadixMarks) /\ tok(3, ExactnessMarks)
               \/ tok(1, ExactnessMarks) /\ tok(3, RadixMarks)
    IN  \/ IsComplex(s, 1, 10)
        \/ one /\ IsComplex(s, 3, PrefixRadix(s))
        \/ two /\ IsComplex(s, 5, PrefixRadix(s))

BodyStart(s) ==
    IF CharAt(s, 1) # "#" THEN 1 ELSE IF CharAt(s, 3) # "#" THEN 3 ELSE 5
ExactRequested(s) == PrefixHas(s, {"e", "E"})
\* What a refused request comes back as.
Refused == IF y.strict THEN NUMREAD_ERROR ELSE SCM_FALSE
\* s is a <number> whose <complex> is not a <real>.
ComplexLiteral(s) ==
    /\ Derivable(s)
    /\ Len(s) + 1 \notin RealEnds(s, BodyStart(s), PrefixRadix(s))
\* s is a <number> of the form n/0.
ZeroDenominator(s) ==
    LET b == BodyStart(s)
        u == IF CharAt(s, b) \in {"+", "-"} THEN b + 1 ELSE b
    IN  /\ Derivable(s)
        /\ \E q \in UintEnds(s, u, PrefixRadix(s)) :
               /\ CharAt(s, q) = "/"
               /\ q + 1 <= Len(s)
               /\ AllIn(s, q + 1, Len(s) + 1, {"0"})

\* C18: under #e a literal that denotes a complex number, an infinity or a
\* NaN is refused (the error in strict mode, false otherwise), and no #e
\* input yields a Complex or a non-finite Flonum.
C18_ExactRefusesComplex ==
    (ReadCall /\ ExactRequested(x))
    => /\ ~SCM_COMPNUMP(res)
       /\ SCM_FLONUMP(res) => res.c = "fin"
       /\ (ComplexLiteral(x) \/ ZeroDenominator(x)) => res = Refused

\* Literals sign? mantissa marker sign? digits in radix 10: where the
\* exponent marker is, the exponent's magnitude and the two signs.
MantissaStart(s) ==
    IF CharAt(s, BodyStart(s)) \in {"+", "-"} THEN BodyStart(s) + 1 ELSE BodyStart(s)
MarkerAt(s, k) ==
    /\ k \in MantissaEnds(s, MantissaStart(s), 10)
    /\ Len(s) + 1 \in SuffixEnds(s, k)
ExponentLiteral(s) ==
    /\ ~PrefixHas(s, RadixMarks)
    /\ Derivable(s)
    /\ \E k \in 1 .. Len(s) : MarkerAt(s, k)
MarkerPos(s) == CHOOSE k \in 1 .. Len(s) : MarkerAt(s, k)
RECURSIVE DigitsValue(_, _, _)
DigitsValue(s, p, acc) ==
    IF p > Len(s) THEN acc ELSE DigitsValue(s, p + 1, acc * 10 + DigitVal(s[p], 10))
ExpNegative(s) == CharAt(s, MarkerPos(s) + 1) = "-"
ExpMagnitude(s) ==
    DigitsValue(s, IF CharAt(s, MarkerPos(s) + 1) \in {"+", "-"}
                   THEN MarkerPos(s) + 2 ELSE MarkerPos(s) + 1, 0)
MantissaNegative(s) == CharAt(s, BodyStart(s)) = "-"

C20_GrammarAccepted ==
    (ReadCall /\ CharAt(x, 1) # "#" /\ Derivable(x)) => SCM_NUMBERP(res)

\* C21: a string that the grammar does not derive is never read as a
\* number: string->number returns false, or leaves through the error in
\* strict mode; a real part without a digit is not read as zero.
C21_NonGrammarRejected ==
    (ReadCall /\ ~Derivable(x)) => (res = SCM_FALSE \/ IsErr(res))

\* The number whose printed form the reader was given.
PrintedNumber == rem
ReadBack == op = "string_to_number" /\ PrintedNumber # NoValue
FiniteNonZero(o) == SCM_FLONUMP(o) /\ o.c = "fin" /\ o.n # 0

\* C22: printing a finite non-zero flonum in radix 10 and reading the
\* string back gives the flonum that was printed.
C22_PrintReadRoundTrip ==
    (ReadBack /\ FiniteNonZero(PrintedNumber)) => res = PrintedNumber

\* Scm_NumberToString has returned: x is the string, rem the number.
Printed == op \in {"init", "string_to_number"} /\ PrintedNumber # NoValue
Chars(s) == {s[i] : i \in 1 .. Len(s)}
\* The upper end of the rounding interval of a finite v # 0: |v| plus half
\* the gap to the next double; the end belongs to the interval when the
\* mantissa of v is even.
RoundingHigh(v) ==
    LET dec == Scm_DecodeFlonum([v EXCEPT !.neg = FALSE])
    IN  [n |-> (2 * dec.m + 1) * Pow2(dec.k - 1),
         d |-> Pow2(1 - dec.k),
         closed |-> dec.m % 2 = 0]
\* h < 10^k, or h <= 10^k when h is outside the interval.
HighBelow(h, k) ==
    LET a == IF k < 0 THEN h.n * Pow10(-k) ELSE h.n
        b == IF k < 0 THEN h.d ELSE h.d * Pow10(k)
    IN  IF h.closed THEN a < b ELSE a <= b
\* The decimal exponent of the printed digits (Burger and Dybvig's k): the
\* least k with 10^k above every number of the rounding interval.
RECURSIVE DecimalExponent(_, _)
DecimalExponent(h, k) ==
    IF ~HighBelow(h, k) THEN DecimalExponent(h, k + 1)
    ELSE IF HighBelow(h, k - 1) THEN DecimalExponent(h, k - 1)
    ELSE k
EndsWith(s, t) ==
    Len(s) >= Len(t) /\ SubSeq(s, Len(s) - Len(t) + 1, Len(s)) = t
Positional(s) == "e" \notin Chars(s)
Scientific(s, e) == EndsWith(s, <<"e">> \o Decimal(e))
NotationByExponent(s, est) ==
    IF -3 < est /\ est < 10 THEN Positional(s) ELSE Scientific(s, est - 1)

\* C23: the printer renders +0.0 as "0.0", -0.0 as "-0.0", the two
\* infinities as sentinels that differ by the sign, NaN as "+nan.0"; any
\* other finite value is printed positionally exactly when the decimal
\* exponent est has -3 < est < 10 and with the exponent est - 1 otherwise.
C23_SpecialValuesAndNotation ==
    (Printed /\ SCM_FLONUMP(PrintedNumber)) =>
        /\ PrintedNumber = FloZero(FALSE) => x = <<"0", ".", "0">>
        /\ PrintedNumber = FloZero(TRUE) => x = <<"-", "0", ".", "0">>
        /\ FIsInf(PrintedNumber) =>
               /\ ("-" \in Chars(x)) = PrintedNumber.neg
               /\ Chars(x) \cap {"#", "i", "n", "f"} # {}
        /\ FIsNaN(PrintedNumber) => x = <<"+", "n", "a", "n", ".", "0">>
        /\ FiniteNonZero(PrintedNumber) =>
               NotationByExponent(x, DecimalExponent(RoundingHigh(PrintedNumber), 0))

\* Numerator and denominator of an exact number as integers.
NumerOf(o) == IF SCM_RATNUMP(o) THEN o.n.v ELSE o.v
DenomOf(o) == IF SCM_RATNUMP(o) THEN o.d.v ELSE 1
RECURSIVE IPow(_, _)
IPow(b, n) == IF n = 0 THEN 1 ELSE b * IPow(b, n - 1)
\* The exact number n/d, d # 0, in normal form: lowest terms, a positive
\* denominator, an integer when the denominator is 1, a fixnum when it fits.
ExactOf(n, d) ==
    LET g == IGcd(IAbs(n), IAbs(d))
        nn == (IF d < 0 THEN -n ELSE n) \div g
        dd == IAbs(d) \div g
    IN  IF dd = 1 THEN Obj(nn) ELSE [tag |-> "rat", n |-> Obj(nn), d |-> Obj(dd)]
\* b^e for an exact b and an integer e, b # 0 when e < 0.
ExactPower(b, e) ==
    IF e >= 0 THEN ExactOf(IPow(NumerOf(b), e), IPow(DenomOf(b), e))
    ELSE ExactOf(IPow(DenomOf(b), -e), IPow(NumerOf(b), -e))

ExptCall == op = "expt" /\ SCM_EXACTP(x) /\ SCM_INTEGERP(y)
UnitBase == x \in {SCM_MAKE_INT(1), SCM_MAKE_INT(-1)}

\* C24: for an exact x and an exact integer y, expt returns exactly x^y in
\* normal form (fixnum when it fits, bignum otherwise, the exact reciprocal
\* for y < 0), whichever of the table, the shift and the loop computes it;
\* a bignum exponent with a base other than 1 and -1 raises the
\* exponent-too-big error.  0 to a negative power is left out.
C24_ExactExpt ==
    ExptCall =>
        IF y.v = 0 \/ UnitBase THEN res = ExactPower(x, y.v % 2)
        ELSE IF SCM_BIGNUMP(y) THEN res = Err("exponent too big")
        ELSE IF x = SCM_MAKE_INT(0) /\ y.v < 0 THEN TRUE
        ELSE res = ExactPower(x, y.v)

\* The loop has squared the base twice and multiplied for an odd exponent:
\* (-2/3)^5, and the table has been used: 10^3 = 1000.
C24_Witness ==
    /\ op = "expt"
    /\ \/ x = Rat(-2, 3) /\ y = Obj(5) /\ res = Rat(-32, 243)
       \/ x = Obj(10) /\ y = Obj(3) /\ res = [tag |-> "big", v |-> 1000]

ClampCall == op \in {"get_integer", "get_integer_u"}
\* The numbers with an integer value: exact integers and integral doubles.
IntegerValued(o) == SCM_INTEGERP(o) \/ (SCM_FLONUMP(o) /\ o.c = "fin" /\ o.d = 1)
IntegerValue(o) == IF SCM_FLONUMP(o) THEN FNum(o) ELSE o.v
HostMin == IF op = "get_integer" THEN LONG_MIN ELSE 0
HostMax == IF op = "get_integer" THEN LONG_MAX ELSE ULONG_MAX
\* What an out-of-range value gives when the flags do not clamp it.
ClampRefused ==
    IF y.clamp = SCM_CLAMP_NONE /\ y.oorp THEN res = CLong(0, "TRUE")
    ELSE res = Err("argument out of range")
\* The word v is returned and the flag is not raised; it is cleared when
\* the call has the flag to report through.
ClampReturned(v) ==
    /\ res.tag = "long" /\ res.v = v
    /\ res.oor = (IF y.clamp = SCM_CLAMP_NONE /\ y.oorp THEN "FALSE" ELSE "untouched")

\* C25: extraction of a signed or unsigned long from an integer value:
\* above the maximum it saturates to the maximum under HI or BOTH, below
\* the minimum to the minimum under LO or BOTH; an out-of-range value that
\* is not clamped sets the flag and returns 0 under NONE with a flag
\* pointer and raises the range error otherwise; an in-range value is
\* returned unchanged with the flag cleared.
C25_ClampContract ==
    (ClampCall /\ IntegerValued(x)) =>
        IF IntegerValue(x) > HostMax
        THEN (IF "hi" \in y.clamp THEN ClampReturned(HostMax) ELSE ClampRefused)
        ELSE IF IntegerValue(x) < HostMin
        THEN (IF "lo" \in y.clamp THEN ClampReturned(HostMin) ELSE ClampRefused)
        ELSE ClampReturned(IntegerValue(x))

FixnumArgs == SCM_INTP(x) /\ SCM_INTP(y)

\* C26: add, sub and mul of two fixnums return the exact sum, difference
\* and product, as a fixnum when it fits and as a bignum otherwise: the
\* overflow test of the multiplication catches every product that does not
\* fit, and no wrapped word is returned.
C26_FixnumArithmeticExact ==
    /\ (op = "add" /\ FixnumArgs) => res = Obj(x.v + y.v)
    /\ (op = "sub" /\ FixnumArgs) => res = Obj(x.v - y.v)
    /\ (op = "mul" /\ FixnumArgs) => res = Obj(x.v * y.v)

\* A product whose wrapped word is a fixnum: only the division test of the
\* overflow predicate tells that it overflowed.
C26_Witness ==
    /\ op = "mul" /\ FixnumArgs
    /\ SCM_SMALL_INT_FITS(WrapLong(x.v * y.v))
    /\ WrapLong(x.v * y.v) # x.v * y.v
    /\ res = [tag |-> "big", v |-> x.v * y.v]

\* The general case of Scm_RatnumAddSub on exact a and b: both numerators
\* scaled by the other denominator's cofactor of the gcd, and the finish.
GeneralAddSub(a, b, subtract) ==
    LET g == IGcd(DenomOf(a), DenomOf(b))
        fx == DenomOf(a) \div g
        fy == DenomOf(b) \div g
        nr == IF subtract THEN NumerOf(a) * fy - NumerOf(b) * fx
              ELSE NumerOf(a) * fy + NumerOf(b) * fx
    IN  Scm_MakeRational(Obj(nr), Obj(DenomOf(a) * fy))
\* An addition or subtraction of exact numbers, one of them a ratnum.
RatnumAddSubCall ==
    /\ op \in {"add", "sub"} /\ ExactArgs
    /\ SCM_RATNUMP(x) \/ SCM_RATNUMP(y)
Divides(a, b) == b % a = 0

FiniteFlonum(o) == SCM_FLONUMP(o) /\ o.c = "fin"
FlonumArgs == FiniteFlonum(x) /\ FiniteFlonum(y)
\* The exact quotient, remainder or modulo of the integers a and b # 0.
ExactDivision(name, a, b) ==
    IF name = "quotient" THEN CDiv(a, b)
    ELSE IF name = "remainder" THEN CRem(a, b)
    ELSE a - b * ((a - (IF b > 0 THEN a % b ELSE -((-a) % (-b)))) \div b)

\* C28: quotient, remainder and modulo of two integral flonums return the
\* flonum of the exact integer result (the quotient truncated toward zero,
\* so quotient(7.0, 2.0) = 3.0; the remainder with the sign of x); a flonum
\* operand that is not integral raises an error.
C28_FlonumDivision ==
    (op \in DivisionOps /\ FlonumArgs /\ ~FIsZero(y)) =>
        IF IntegralFlonum(x) /\ IntegralFlonum(y)
        THEN /\ SCM_FLONUMP(res)
             /\ FEqual(res, IntToDouble(ExactDivision(op, FNum(x), FNum(y))))
        ELSE IsErr(res)

\* C29: under every interleaving of threads making concurrent first uses of
\* the power-of-ten table, the body of iexpt10_init is executed by at most
\* one thread, and no thread reads a table entry before it has been written.
C29_InitSerialized ==
    /\ Cardinality({ t \in Threads : rem[t].entered }) <= 1
    /\ \A t \in Threads : op[t] = "done" => res[t] # NULL

\* C30: every call iexpt10(e) made while reading or printing a number has
\* 0 <= e < IEXPT10_TABLESIZ, whatever the number of fraction digits of the
\* literal and for every finite flonum printed.
C30_TableIndex ==
    (op \in {"read_real", "double_print"})
        => \A e \in res.args : 0 <= e /\ e < IEXPT10_TABLESIZ

============================================================================
